---- MODULE Spec2Model ----
(***************************************************************************)
(* Three-level circuit breaker of bank-circuit-breaker.                    *)
(*                                                                         *)
(* The DynamoDB table holds one state record (pk = 'system-state') and two *)
(* event logs (pk = 'failure-log' / 'success-log', sort key = timestamp).  *)
(* Workers (Lambda invocations) run concurrently; every await on the       *)
(* DynamoDB client or on the Lambda client is one step of a worker.        *)
(***************************************************************************)
EXTENDS Integers, Sequences, FiniteSets, TLC

VARIABLES
    now,            \* the clock read by new Date() / Date.now()
    item,           \* the record under pk = 'system-state', or NoItem
    failureLog,     \* the items under pk = 'failure-log'
    successLog,     \* the items under pk = 'success-log'
    pc,             \* pc[p]: the await a worker is suspended at
    unit,           \* unit[p]: what the worker is running
    call,           \* call[p]: arguments of the running increment*Count call
    currentState,   \* currentState[p]: the local of increment*Count
    result,         \* result[p]: what increment*Count returned
    request,        \* request[p]: the controller's event and what the Lambda client will answer
    systemState,    \* systemState[p]: the local of exports.handler
    response,       \* response[p]: what exports.handler returned
    calls,          \* calls[p]: increment*Count calls made by the current unit of work
    quota,          \* quota[p]: units of work the worker may still start
    batch,          \* batch[p]: the locals of the alarm processor's exports.handler
    start,          \* the state record the run started from
    hist            \* the increment*Count calls completed by the observed caller

vars == <<now, item, failureLog, successLog, pc, unit, call, currentState,
          result, request, systemState, response, calls, quota, batch, start,
          hist>>

----------------------------------------------------------------------------
(* Bounds of the model *)

\* calls of the single caller in sequential runs
MaxSeqCalls == 6
\* units of work per worker in concurrent runs
MaxConcCalls == 1
\* calls of the second worker while the first one is suspended
MaxRaceCalls == 6
\* requests of the controller in a run
MaxRequests == 2
\* largest failureCount of a level-3 record a run starts from
MaxStartFailures == 11
\* largest successCount of a record a run starts from
MaxStartSuccesses == 1
\* records of one SQS event
MaxBatch == 3

----------------------------------------------------------------------------
(* Program constants *)

FailuresTo2 == 5
FailuresTo3 == 10
SuccessesTo2 == 3
SuccessesTo1 == 5
RecoveryResponseTime == 50

Procs == {"caller", "other"}
Caller == "caller"
Levels == {1, 2, 3}

NoItem == [pk |-> "none"]
NoCall == [op |-> "none"]
NoResult == [transitioned |-> FALSE, state |-> NoItem]
NoOutcome == [kind |-> "none"]
NoRequest == [httpMethod |-> "none", startTime |-> 0, outcome |-> NoOutcome]
NoResponse == [statusCode |-> 0]
NoBatch == [shape |-> "array", Records |-> <<>>, index |-> 0, results |-> <<>>]

InitialReason == [text |-> "Initial state", count |-> 0]

ServiceTypeMap(level) ==
    CASE level = 1 -> "full-service"
      [] level = 2 -> "degraded-service"
      [] level = 3 -> "maintenance-service"
      [] OTHER -> "unknown-service"

----------------------------------------------------------------------------
(* shared/dynamodb-operations.js *)

\* a default record that starts in degraded mode
DefaultStateDegraded ==
    [pk |-> "system-state",
     currentLevel |-> 2,
     failureCount |-> 0,
     successCount |-> 0,
     lastTransition |-> now,
     lastUpdated |-> now,
     transitionReason |-> InitialReason]

\* getSystemState: the record created when the table has none
DefaultState ==
    [pk |-> "system-state",
     currentLevel |-> 1,
     failureCount |-> 0,
     successCount |-> 0,
     lastTransition |-> now,
     lastUpdated |-> now,
     transitionReason |-> InitialReason]

\* dynamodb.put of updateSystemState: the whole record replaces the stored one
Stamped(stateUpdate) == [stateUpdate EXCEPT !.lastUpdated = now]

\* dynamodb.put of an event: an item with the same pk and sk is replaced
PutEvent(log, ev) == {e \in log : e.sk # ev.sk} \cup {ev}

FailureEvent(c) ==
    [sk |-> now, service |-> c.serviceType, serviceLevel |-> c.serviceLevel,
     errorType |-> c.errorType]

SuccessEvent(c) ==
    [sk |-> now, service |-> c.serviceType, serviceLevel |-> c.serviceLevel,
     responseTime |-> c.responseTime]

\* a failure that keeps the success streak
FailureCountersKeepSuccesses(cur) ==
    [cur EXCEPT !.failureCount = cur.failureCount + 1]

\* every failure stamped as a transition
FailureCountersStamped(cur) ==
    [cur EXCEPT !.failureCount = cur.failureCount + 1,
                !.successCount = 0,
                !.lastTransition = now]

\* incrementFailureCount: the counters written after a failure
FailureCounters(cur) ==
    [cur EXCEPT !.failureCount = cur.failureCount + 1,
                !.successCount = 0]

\* the thresholds compared with > instead of >=
FailureEdgeLate(level, failureCount) ==
    IF level = 1 /\ failureCount > FailuresTo2
    THEN [shouldTransition |-> TRUE, newLevel |-> 2,
          reason |-> [text |-> "Transition 1->2", count |-> failureCount]]
    ELSE IF level = 2 /\ failureCount > FailuresTo3
    THEN [shouldTransition |-> TRUE, newLevel |-> 3,
          reason |-> [text |-> "Transition 2->3", count |-> failureCount]]
    ELSE [shouldTransition |-> FALSE, newLevel |-> level,
          reason |-> [text |-> "", count |-> 0]]

\* the first threshold opening the circuit completely
FailureEdgeSkip(level, failureCount) ==
    IF level = 1 /\ failureCount >= FailuresTo2
    THEN [shouldTransition |-> TRUE, newLevel |-> 3,
          reason |-> [text |-> "Transition 1->2", count |-> failureCount]]
    ELSE IF level = 2 /\ failureCount >= FailuresTo3
    THEN [shouldTransition |-> TRUE, newLevel |-> 3,
          reason |-> [text |-> "Transition 2->3", count |-> failureCount]]
    ELSE [shouldTransition |-> FALSE, newLevel |-> level,
          reason |-> [text |-> "", count |-> 0]]

\* incrementFailureCount: shouldTransition, newLevel and transitionReason
FailureEdge(level, failureCount) ==
    IF level = 1 /\ failureCount >= FailuresTo2
    THEN [shouldTransition |-> TRUE, newLevel |-> 2,
          reason |-> [text |-> "Transition 1->2", count |-> failureCount]]
    ELSE IF level = 2 /\ failureCount >= FailuresTo3
    THEN [shouldTransition |-> TRUE, newLevel |-> 3,
          reason |-> [text |-> "Transition 2->3", count |-> failureCount]]
    ELSE [shouldTransition |-> FALSE, newLevel |-> level,
          reason |-> [text |-> "", count |-> 0]]

\* a transition that starts a new failure count
FailureTransitionResets(updated, edge) ==
    [updated EXCEPT !.currentLevel = edge.newLevel,
                    !.failureCount = 0,
                    !.lastTransition = now,
                    !.transitionReason = edge.reason]

\* incrementFailureCount: the fields rewritten when shouldTransition
FailureTransition(updated, edge) ==
    [updated EXCEPT !.currentLevel = edge.newLevel,
                    !.lastTransition = now,
                    !.transitionReason = edge.reason]

\* incrementFailureCount, from the record it read to what it writes and returns
FailureUpdate(cur) ==
    LET updated == FailureCounters(cur)
        edge == FailureEdge(cur.currentLevel, updated.failureCount)
    IN  [transitioned |-> edge.shouldTransition,
         state |-> IF edge.shouldTransition
                   THEN FailureTransition(updated, edge)
                   ELSE updated]

\* a success that clears the failure count
SuccessCountersResetFailures(cur) ==
    [cur EXCEPT !.successCount = cur.successCount + 1,
                !.failureCount = 0]

\* incrementSuccessCount: the counters written after a success
SuccessCounters(cur) ==
    [cur EXCEPT !.successCount = cur.successCount + 1]

\* both recoveries at the threshold of the first
SuccessEdgeSameThreshold(level, successCount) ==
    IF level = 3 /\ successCount >= SuccessesTo2
    THEN [shouldTransition |-> TRUE, newLevel |-> 2,
          reason |-> [text |-> "Recovery 3->2", count |-> successCount]]
    ELSE IF level = 2 /\ successCount >= SuccessesTo2
    THEN [shouldTransition |-> TRUE, newLevel |-> 1,
          reason |-> [text |-> "Recovery 2->1", count |-> successCount]]
    ELSE [shouldTransition |-> FALSE, newLevel |-> level,
          reason |-> [text |-> "", count |-> 0]]

\* incrementSuccessCount: shouldTransition, newLevel and transitionReason
SuccessEdge(level, successCount) ==
    IF level = 3 /\ successCount >= SuccessesTo2
    THEN [shouldTransition |-> TRUE, newLevel |-> 2,
          reason |-> [text |-> "Recovery 3->2", count |-> successCount]]
    ELSE IF level = 2 /\ successCount >= SuccessesTo1
    THEN [shouldTransition |-> TRUE, newLevel |-> 1,
          reason |-> [text |-> "Recovery 2->1", count |-> successCount]]
    ELSE [shouldTransition |-> FALSE, newLevel |-> level,
          reason |-> [text |-> "", count |-> 0]]

\* a recovery that keeps the failure count
SuccessTransitionKeepsFailures(updated, edge) ==
    [updated EXCEPT !.currentLevel = edge.newLevel,
                    !.lastTransition = now,
                    !.transitionReason = edge.reason,
                    !.successCount = 0]

\* incrementSuccessCount: the fields rewritten on a recovery
SuccessTransition(updated, edge) ==
    [updated EXCEPT !.failureCount = 0,
                    !.currentLevel = edge.newLevel,
                    !.lastTransition = now,
                    !.transitionReason = edge.reason,
                    !.successCount = 0]

\* incrementSuccessCount, from the record it read to what it writes and returns
SuccessUpdate(cur) ==
    LET updated == SuccessCounters(cur)
        edge == SuccessEdge(cur.currentLevel, updated.successCount)
    IN  [transitioned |-> edge.shouldTransition,
         state |-> IF edge.shouldTransition
                   THEN SuccessTransition(updated, edge)
                   ELSE updated]

\* the thresholds of the level named by the caller instead of the level read
UpdateByArgument(c, cur) ==
    IF c.op = "failure"
    THEN FailureUpdate([cur EXCEPT !.currentLevel = c.serviceLevel])
    ELSE SuccessUpdate([cur EXCEPT !.currentLevel = c.serviceLevel])

\* what call c (its serviceType, errorType or responseTime and serviceLevel
\* go to the event it logs) makes of the record it read
Update(c, cur) ==
    IF c.op = "failure" THEN FailureUpdate(cur) ELSE SuccessUpdate(cur)

\* an update computed from the stored record at the time of the write
WrittenStateFresh(p) == Update(call[p], item)

\* the record increment*Count computes from the record it read
WrittenState(p) == Update(call[p], currentState[p])

----------------------------------------------------------------------------
(* One increment*Count call of worker p, one action per await *)

Reset(p, u, c, r) ==
    /\ unit' = [unit EXCEPT ![p] = u]
    /\ call' = [call EXCEPT ![p] = c]
    /\ request' = [request EXCEPT ![p] = r]
    /\ currentState' = [currentState EXCEPT ![p] = NoItem]
    /\ result' = [result EXCEPT ![p] = NoResult]
    /\ systemState' = [systemState EXCEPT ![p] = NoItem]
    /\ response' = [response EXCEPT ![p] = NoResponse]
    /\ calls' = [calls EXCEPT ![p] = IF c = NoCall THEN <<>> ELSE <<c>>]
    /\ quota' = [quota EXCEPT ![p] = quota[p] - 1]

\* a caller (processFailureAlarm) enters incrementFailureCount
CallFailure(p, levels) ==
    /\ pc[p] \in {"idle", "done"}
    /\ quota[p] > 0
    /\ \E lvl \in levels, et \in {"HighErrorRate"} :
          Reset(p, "record",
                [op |-> "failure", serviceType |-> ServiceTypeMap(lvl),
                 errorType |-> et, serviceLevel |-> lvl],
                NoRequest)
    /\ pc' = [pc EXCEPT ![p] = "log"]
    /\ UNCHANGED <<batch, now, item, failureLog, successLog, start, hist>>

\* a caller (processRecoveryAlarm) enters incrementSuccessCount
CallSuccess(p, levels) ==
    /\ pc[p] \in {"idle", "done"}
    /\ quota[p] > 0
    /\ \E lvl \in levels :
          Reset(p, "record",
                [op |-> "success", serviceType |-> ServiceTypeMap(lvl),
                 serviceLevel |-> lvl, responseTime |-> RecoveryResponseTime],
                NoRequest)
    /\ pc' = [pc EXCEPT ![p] = "log"]
    /\ UNCHANGED <<batch, now, item, failureLog, successLog, start, hist>>

\* await logFailure(...) / await logSuccess(...)
LogEvent(p) ==
    /\ pc[p] = "log"
    /\ IF call[p].op = "failure"
       THEN /\ failureLog' = PutEvent(failureLog, FailureEvent(call[p]))
            /\ UNCHANGED successLog
       ELSE /\ successLog' = PutEvent(successLog, SuccessEvent(call[p]))
            /\ UNCHANGED failureLog
    /\ pc' = [pc EXCEPT ![p] = "get"]
    /\ UNCHANGED <<batch, now, item, unit, call, currentState, result, request,
                   systemState, response, calls, quota, start, hist>>

\* every read of one unit of work answered with the record the unit found
\* at its start
GetStateAtStart(p) ==
    /\ pc[p] = "get"
    /\ item # NoItem
    /\ currentState' = [currentState EXCEPT ![p] =
                           IF start = NoItem THEN item ELSE start]
    /\ pc' = [pc EXCEPT ![p] = "put"]
    /\ UNCHANGED <<batch, now, item, failureLog, successLog, unit, call, result,
                   request, systemState, response, calls, quota, start, hist>>

\* getSystemState in increment*Count: await dynamodb.get, the record exists
GetState(p) ==
    /\ pc[p] = "get"
    /\ item # NoItem
    /\ currentState' = [currentState EXCEPT ![p] = item]
    /\ pc' = [pc EXCEPT ![p] = "put"]
    /\ UNCHANGED <<batch, now, item, failureLog, successLog, unit, call, result,
                   request, systemState, response, calls, quota, start, hist>>

\* getSystemState in increment*Count: await dynamodb.get, no record
GetNoState(p) ==
    /\ pc[p] = "get"
    /\ item = NoItem
    /\ currentState' = [currentState EXCEPT ![p] = DefaultState]
    /\ pc' = [pc EXCEPT ![p] = "create"]
    /\ UNCHANGED <<batch, now, item, failureLog, successLog, unit, call, result,
                   request, systemState, response, calls, quota, start, hist>>

\* getSystemState in increment*Count: await updateSystemState(defaultState)
CreateState(p) ==
    /\ pc[p] = "create"
    /\ item' = Stamped(currentState[p])
    /\ pc' = [pc EXCEPT ![p] = "put"]
    /\ UNCHANGED <<batch, now, failureLog, successLog, unit, call, currentState,
                   result, request, systemState, response, calls, quota,
                   start, hist>>

\* await updateSystemState(updatedState); return { state, transitioned }
PutState(p) ==
    /\ pc[p] = "put"
    /\ item' = Stamped(WrittenState(p).state)
    /\ result' = [result EXCEPT ![p] = WrittenState(p)]
    /\ hist' = IF p = Caller THEN Append(hist, call[p].op) ELSE hist
    /\ pc' = [pc EXCEPT ![p] = CASE unit[p] = "record" -> "done"
                                  [] unit[p] = "batch" -> "recorded"
                                  [] OTHER -> "respond"]
    /\ UNCHANGED <<batch, now, failureLog, successLog, unit, call, currentState,
                   request, systemState, response, calls, quota, start>>

\* what the caller of increment*Count gets when the table call of step at
\* rejects: the catch block logs the error and throws it again
Thrown(at) ==
    [transitioned |-> FALSE, state |-> NoItem, error |-> "TableError",
     at |-> at]

\* a failed call that takes its event back
CallErrorRollsBack(p) ==
    /\ unit[p] = "record"
    /\ pc[p] \in {"log", "get", "create", "put"}
    /\ result' = [result EXCEPT ![p] = Thrown(pc[p])]
    /\ pc' = [pc EXCEPT ![p] = "done"]
    /\ failureLog' = {}
    /\ successLog' = {}
    /\ UNCHANGED <<batch, now, item, unit, call, currentState, request,
                   systemState, response, calls, quota, start, hist>>

\* increment*Count called directly: the table call the worker is waiting
\* for (the put of the event, the get or the put of the state record)
\* rejects, nothing is written by it, and the call ends with the error
CallError(p) ==
    /\ unit[p] = "record"
    /\ pc[p] \in {"log", "get", "create", "put"}
    /\ result' = [result EXCEPT ![p] = Thrown(pc[p])]
    /\ pc' = [pc EXCEPT ![p] = "done"]
    /\ UNCHANGED <<batch, now, item, failureLog, successLog, unit, call,
                   currentState, request, systemState, response, calls,
                   quota, start, hist>>

Engine(p) ==
    \/ LogEvent(p)
    \/ GetState(p)
    \/ GetNoState(p)
    \/ CreateState(p)
    \/ PutState(p)

----------------------------------------------------------------------------
(* circuit-breaker-controller/index.js: exports.handler, one action per    *)
(* await that reads or writes the table or invokes the level handler       *)

Methods == {"GET", "POST", "PUT"}

\* what lambda.send can answer: a rejected promise, a FunctionError, an
\* answer without Payload, a Payload that is no JSON, a parsed response
HandlerStatusCodes == {200, 399, 400, 503}

Outcomes ==
    {[kind |-> k] : k \in {"throws", "FunctionError", "noPayload", "badPayload"}}
    \cup {[kind |-> "parsed", statusCode |-> sc, headers |-> h] :
            sc \in HandlerStatusCodes, h \in BOOLEAN}

\* the window of the query closed at the threshold
RecentFromThreshold(log, minutesBack) ==
    {e \in log : e.sk >= now - minutesBack * 60}

\* getRecentFailures / getRecentSuccesses: timeThreshold is Date.now() less
\* minutesBack minutes, KeyConditionExpression sk > :threshold. The clock
\* counts seconds; timestamps in ISO format compare as their times do
Recent(log, minutesBack) == {e \in log : e.sk > now - minutesBack * 60}

MethodNotAllowed ==
    [statusCode |-> 405, allow |-> {"GET", "POST"}]

\* the thresholds field of the status response: 'N failures',
\* 'N consecutive successes'
PublishedThresholds ==
    [level1to2 |-> [count |-> 5, of |-> "failures"],
     level2to3 |-> [count |-> 10, of |-> "failures"],
     level3to2 |-> [count |-> 3, of |-> "consecutive successes"],
     level2to1 |-> [count |-> 5, of |-> "consecutive successes"]]

\* a status response whose counters are the numbers of recent events
StatusResponseRecentCounts(st, failures, successes) ==
    [statusCode |-> 200,
     level |-> st.currentLevel,
     activeService |-> ServiceTypeMap(st.currentLevel),
     failureCount |-> failures,
     successCount |-> successes,
     thresholds |-> PublishedThresholds,
     recentFailures |-> failures,
     recentSuccesses |-> successes]

\* the response of handleStatusRequest
StatusResponse(st, failures, successes) ==
    [statusCode |-> 200,
     level |-> st.currentLevel,
     activeService |-> ServiceTypeMap(st.currentLevel),
     failureCount |-> st.failureCount,
     successCount |-> st.successCount,
     thresholds |-> PublishedThresholds,
     recentFailures |-> failures,
     recentSuccesses |-> successes]

\* the response of the FunctionError branch of handleServiceRequest
ServiceFailureResponse(st) ==
    [statusCode |-> 503,
     level |-> st.currentLevel,
     routedTo |-> ServiceTypeMap(st.currentLevel),
     status |-> "service_failure"]

\* the response of the catch block of handleServiceRequest
FallbackResponse(st) ==
    [statusCode |-> 503,
     level |-> 3,
     routedTo |-> "maintenance-fallback",
     status |-> "routing_error",
     originalLevel |-> st.currentLevel]

\* the handler's own response annotated with the level now stored
PassThroughResponseStoredLevel(st, o) ==
    IF o.headers
    THEN [statusCode |-> o.statusCode,
          level |-> item.currentLevel,
          routedTo |-> ServiceTypeMap(item.currentLevel),
          status |-> "handler"]
    ELSE [statusCode |-> o.statusCode, status |-> "handler"]

\* the handler's own response, annotated when it carries headers
PassThroughResponse(st, o) ==
    IF o.headers
    THEN [statusCode |-> o.statusCode,
          level |-> st.currentLevel,
          routedTo |-> ServiceTypeMap(st.currentLevel),
          status |-> "handler"]
    ELSE [statusCode |-> o.statusCode, status |-> "handler"]

\* const httpMethod = event.httpMethod || 'GET'
HttpMethod(m) == IF m = "" THEN "GET" ELSE m

\* exports.handler is invoked with an event
BeginRequest(p) ==
    /\ pc[p] \in {"idle", "done"}
    /\ quota[p] > 0
    /\ \E m \in Methods \cup {""} :
          Reset(p, "request", NoCall,
                [httpMethod |-> HttpMethod(m), startTime |-> now,
                 outcome |-> NoOutcome])
    /\ pc' = [pc EXCEPT ![p] = "ctlGet"]
    /\ UNCHANGED <<batch, now, item, failureLog, successLog, start, hist>>

\* every method but GET handed to handleServiceRequest
AfterGetStateRoutesAll(p) ==
    IF request[p].httpMethod = "GET"
    THEN /\ pc' = [pc EXCEPT ![p] = "recentFailures"]
         /\ UNCHANGED response
    ELSE /\ pc' = [pc EXCEPT ![p] = "invoke"]
         /\ UNCHANGED response

\* where exports.handler goes once getSystemState has returned
AfterGetState(p) ==
    IF request[p].httpMethod = "GET"
    THEN /\ pc' = [pc EXCEPT ![p] = "recentFailures"]
         /\ UNCHANGED response
    ELSE IF request[p].httpMethod = "POST"
    THEN /\ pc' = [pc EXCEPT ![p] = "invoke"]
         /\ UNCHANGED response
    ELSE /\ pc' = [pc EXCEPT ![p] = "done"]
         /\ response' = [response EXCEPT ![p] = MethodNotAllowed]

\* getSystemState in exports.handler: await dynamodb.get, the record exists
HandlerGetState(p) ==
    /\ pc[p] = "ctlGet"
    /\ item # NoItem
    /\ systemState' = [systemState EXCEPT ![p] = item]
    /\ AfterGetState(p)
    /\ UNCHANGED <<batch, now, item, failureLog, successLog, unit, call,
                   currentState, result, request, calls, quota, start, hist>>

\* getSystemState in exports.handler: await dynamodb.get, no record
HandlerGetNoState(p) ==
    /\ pc[p] = "ctlGet"
    /\ item = NoItem
    /\ systemState' = [systemState EXCEPT ![p] = DefaultState]
    /\ pc' = [pc EXCEPT ![p] = "ctlCreate"]
    /\ UNCHANGED <<batch, now, item, failureLog, successLog, unit, call,
                   currentState, result, request, response, calls, quota,
                   start, hist>>

\* getSystemState in exports.handler: await updateSystemState(defaultState)
HandlerCreateState(p) ==
    /\ pc[p] = "ctlCreate"
    /\ item' = Stamped(systemState[p])
    /\ AfterGetState(p)
    /\ UNCHANGED <<batch, now, failureLog, successLog, unit, call, currentState,
                   result, request, systemState, calls, quota, start, hist>>

\* handleStatusRequest: await getRecentFailures(5)
StatusRecentFailures(p) ==
    /\ pc[p] = "recentFailures"
    /\ response' = [response EXCEPT ![p] =
                      [statusCode |-> 0,
                       recentFailures |-> Cardinality(Recent(failureLog, 5))]]
    /\ pc' = [pc EXCEPT ![p] = "recentSuccesses"]
    /\ UNCHANGED <<batch, now, item, failureLog, successLog, unit, call,
                   currentState, result, request, systemState, calls, quota,
                   start, hist>>

\* handleStatusRequest: await getRecentSuccesses(5), then the response
StatusRecentSuccesses(p) ==
    /\ pc[p] = "recentSuccesses"
    /\ response' = [response EXCEPT ![p] =
                      StatusResponse(systemState[p],
                                     response[p].recentFailures,
                                     Cardinality(Recent(successLog, 5)))]
    /\ pc' = [pc EXCEPT ![p] = "done"]
    /\ UNCHANGED <<batch, now, item, failureLog, successLog, unit, call,
                   currentState, result, request, systemState, calls, quota,
                   start, hist>>

\* only server errors (5xx) of the handler recorded as failures
ServiceCallServerErrors(st, o, elapsed) ==
    IF o.kind = "FunctionError"
    THEN [op |-> "failure", serviceType |-> ServiceTypeMap(st.currentLevel),
          errorType |-> "LambdaExecutionError",
          serviceLevel |-> st.currentLevel]
    ELSE IF o.kind = "parsed" /\ o.statusCode >= 500
    THEN [op |-> "failure", serviceType |-> ServiceTypeMap(st.currentLevel),
          errorType |-> "ServiceError", serviceLevel |-> st.currentLevel]
    ELSE IF o.kind = "parsed"
    THEN [op |-> "success", serviceType |-> ServiceTypeMap(st.currentLevel),
          serviceLevel |-> st.currentLevel, responseTime |-> elapsed]
    ELSE NoCall

\* the increment*Count call handleServiceRequest makes for an outcome
ServiceCall(st, o, elapsed) ==
    IF o.kind = "FunctionError"
    THEN [op |-> "failure", serviceType |-> ServiceTypeMap(st.currentLevel),
          errorType |-> "LambdaExecutionError",
          serviceLevel |-> st.currentLevel]
    ELSE IF o.kind = "parsed" /\ o.statusCode >= 400
    THEN [op |-> "failure", serviceType |-> ServiceTypeMap(st.currentLevel),
          errorType |-> "ServiceError", serviceLevel |-> st.currentLevel]
    ELSE IF o.kind = "parsed"
    THEN [op |-> "success", serviceType |-> ServiceTypeMap(st.currentLevel),
          serviceLevel |-> st.currentLevel, responseTime |-> elapsed]
    ELSE NoCall

\* handleServiceRequest: await lambda.send(new InvokeCommand(...)) and the
\* code up to the next await on the table
Invoke(p) ==
    /\ pc[p] = "invoke"
    /\ \E o \in Outcomes :
          LET c == ServiceCall(systemState[p], o, now - request[p].startTime)
          IN  /\ request' = [request EXCEPT ![p].outcome = o]
              /\ call' = [call EXCEPT ![p] = c]
              /\ calls' = [calls EXCEPT ![p] =
                              IF c = NoCall THEN <<>> ELSE <<c>>]
              /\ IF c = NoCall
                 THEN /\ response' = [response EXCEPT ![p] =
                                        FallbackResponse(systemState[p])]
                      /\ pc' = [pc EXCEPT ![p] = "done"]
                 ELSE /\ pc' = [pc EXCEPT ![p] = "log"]
                      /\ UNCHANGED response
    /\ UNCHANGED <<batch, now, item, failureLog, successLog, unit, currentState,
                   result, systemState, quota, start, hist>>

\* handleServiceRequest: the return after increment*Count has returned
Respond(p) ==
    /\ pc[p] = "respond"
    /\ response' = [response EXCEPT ![p] =
                      IF request[p].outcome.kind = "FunctionError"
                      THEN ServiceFailureResponse(systemState[p])
                      ELSE PassThroughResponse(systemState[p],
                                               request[p].outcome)]
    /\ pc' = [pc EXCEPT ![p] = "done"]
    /\ UNCHANGED <<batch, now, item, failureLog, successLog, unit, call,
                   currentState, result, request, systemState, calls, quota,
                   start, hist>>

\* the catch block of exports.handler answering 503 Service Unavailable
ControllerErrorResponseUnavailable ==
    [statusCode |-> 503,
     level |-> 3,
     activeService |-> "maintenance-service",
     status |-> "error"]

\* the response of the catch block of exports.handler
ControllerErrorResponse ==
    [statusCode |-> 500,
     level |-> 3,
     activeService |-> "maintenance-service",
     status |-> "error"]

\* exports.handler: getSystemState, getRecentFailures or getRecentSuccesses
\* rejects (the table cannot be reached); the catch block answers
HandlerError(p) ==
    /\ unit[p] = "request"
    /\ pc[p] \in {"ctlGet", "ctlCreate", "recentFailures", "recentSuccesses"}
    /\ response' = [response EXCEPT ![p] = ControllerErrorResponse]
    /\ pc' = [pc EXCEPT ![p] = "done"]
    /\ UNCHANGED <<batch, now, item, failureLog, successLog, unit, call,
                   currentState, result, request, systemState, calls, quota,
                   start, hist>>

\* a catch block that records the failure it caught
RoutingErrorCallRecorded(st) ==
    [op |-> "failure", serviceType |-> ServiceTypeMap(st.currentLevel),
     errorType |-> "LambdaExecutionError", serviceLevel |-> st.currentLevel]

\* the increment*Count call the catch block of handleServiceRequest makes
RoutingErrorCall(st) == NoCall

\* handleServiceRequest: a table call of increment*Count rejects, the error
\* is rethrown up to the catch block, which answers with the fallback
RoutingError(p) ==
    /\ unit[p] = "request"
    /\ pc[p] \in {"log", "get", "create", "put"}
    /\ calls' = [calls EXCEPT ![p] =
                    IF RoutingErrorCall(systemState[p]) = NoCall
                    THEN calls[p]
                    ELSE Append(calls[p], RoutingErrorCall(systemState[p]))]
    /\ response' = [response EXCEPT ![p] = FallbackResponse(systemState[p])]
    /\ pc' = [pc EXCEPT ![p] = "done"]
    /\ UNCHANGED <<batch, now, item, failureLog, successLog, unit, call,
                   currentState, result, request, systemState, quota, start,
                   hist>>

Controller(p) ==
    \/ HandlerGetState(p)
    \/ HandlerGetNoState(p)
    \/ HandlerCreateState(p)
    \/ StatusRecentFailures(p)
    \/ StatusRecentSuccesses(p)
    \/ Invoke(p)
    \/ Respond(p)

----------------------------------------------------------------------------
(* alarm-processor/index.js: exports.handler over the records of one SQS   *)
(* event, one action per record taken and per await on the table           *)

\* an alarm name: the words it is made of and the N of its LevelN part
\* (0 when the name has none)
ErrorRateLevel1 == [words |-> {"CircuitBreaker", "ErrorRate"}, level |-> 1]
RecoveryLevel3 == [words |-> {"CircuitBreaker", "Recovery"}, level |-> 3]
LatencyLevel2 == [words |-> {"CircuitBreaker", "Latency"}, level |-> 2]
FailureTimeout == [words |-> {"Failure", "Timeout"}, level |-> 0]
SuccessLevel2 == [words |-> {"CircuitBreaker", "Success"}, level |-> 2]
ErrorRateRecovery == [words |-> {"ErrorRate", "Recovery"}, level |-> 0]

\* alarmName.includes(word): 'Rate' is also found inside 'ErrorRate'
Includes(alarmName, word) ==
    \/ word \in alarmName.words
    \/ word = "Rate" /\ "ErrorRate" \in alarmName.words

\* a CloudWatch alarm object
Alarm(alarmName, newStateValue) ==
    [AlarmName |-> alarmName, NewStateValue |-> newStateValue]

\* record.body: a text that is no JSON, the JSON of an alarm, or the JSON of
\* an SNS notification whose Message is the JSON of an alarm
Malformed == [json |-> FALSE]
Plain(alarm) == [json |-> TRUE, Type |-> "", alarm |-> alarm]
Wrapped(alarm) ==
    [json |-> TRUE, Type |-> "Notification",
     Message |-> [json |-> TRUE, alarm |-> alarm]]

Bodies ==
    {Malformed,
     Plain(Alarm(ErrorRateLevel1, "ALARM")),
     Plain(Alarm(ErrorRateLevel1, "OK")),
     Plain(Alarm(RecoveryLevel3, "OK")),
     Wrapped(Alarm(LatencyLevel2, "OK")),
     Plain(Alarm(LatencyLevel2, "ALARM")),
     Plain(Alarm(FailureTimeout, "INSUFFICIENT_DATA")),
     Wrapped(Alarm(RecoveryLevel3, "ALARM"))}

\* notifications of the ALARM state with a failure-class name, a
\* recovery-class name, or a name of both classes
AlarmBodies ==
    {Plain(Alarm(ErrorRateLevel1, "ALARM")),
     Plain(Alarm(FailureTimeout, "ALARM")),
     Wrapped(Alarm(RecoveryLevel3, "ALARM")),
     Plain(Alarm(SuccessLevel2, "ALARM")),
     Plain(Alarm(ErrorRateRecovery, "ALARM"))}

\* a failure alarm recognised by 'ErrorRate' only
ParseAlarmMessageErrorRateOnly(alarmData) ==
    LET alarmName == alarmData.AlarmName
        serviceLevel == IF alarmName.level = 0 THEN 1 ELSE alarmName.level
    IN  [ok |-> TRUE,
         alarmName |-> alarmName,
         isFailureAlarm |-> Includes(alarmName, "ErrorRate"),
         isRecoveryAlarm |-> Includes(alarmName, "Recovery")
                             \/ Includes(alarmName, "Success"),
         serviceLevel |-> serviceLevel,
         serviceType |-> ServiceTypeMap(serviceLevel),
         isAlarmState |-> alarmData.NewStateValue = "ALARM",
         isOkState |-> alarmData.NewStateValue = "OK"]

\* parseAlarmMessage
ParseAlarmMessage(alarmData) ==
    LET alarmName == alarmData.AlarmName
        serviceLevel == IF alarmName.level = 0 THEN 1 ELSE alarmName.level
    IN  [ok |-> TRUE,
         alarmName |-> alarmName,
         isFailureAlarm |-> Includes(alarmName, "ErrorRate")
                            \/ Includes(alarmName, "Failure"),
         isRecoveryAlarm |-> Includes(alarmName, "Recovery")
                             \/ Includes(alarmName, "Success"),
         serviceLevel |-> serviceLevel,
         serviceType |-> ServiceTypeMap(serviceLevel),
         isAlarmState |-> alarmData.NewStateValue = "ALARM",
         isOkState |-> alarmData.NewStateValue = "OK"]

ParseError == [ok |-> FALSE, error |-> "SyntaxError"]

\* JSON.parse(record.body), the SNS wrapper, parseAlarmMessage
ParseRecord(body) ==
    IF ~body.json THEN ParseError
    ELSE IF body.Type = "Notification"
    THEN IF ~body.Message.json THEN ParseError
         ELSE ParseAlarmMessage(body.Message.alarm)
    ELSE ParseAlarmMessage(body.alarm)

\* alarms applied whatever state they report
AlarmCallAnyState(alarmInfo) ==
    IF alarmInfo.isFailureAlarm
    THEN [op |-> "failure", serviceType |-> alarmInfo.serviceType,
          errorType |-> IF Includes(alarmInfo.alarmName, "Timeout")
                        THEN "TimeoutError"
                        ELSE IF Includes(alarmInfo.alarmName, "Rate")
                        THEN "HighErrorRate"
                        ELSE "SystemError",
          serviceLevel |-> alarmInfo.serviceLevel]
    ELSE IF alarmInfo.isRecoveryAlarm
    THEN [op |-> "success", serviceType |-> alarmInfo.serviceType,
          serviceLevel |-> alarmInfo.serviceLevel,
          responseTime |-> RecoveryResponseTime]
    ELSE NoCall

\* an alarm of unknown type applied as a failure
AlarmCallUnknownAsFailure(alarmInfo) ==
    IF alarmInfo.isOkState \/ ~alarmInfo.isAlarmState THEN NoCall
    ELSE IF alarmInfo.isRecoveryAlarm /\ ~alarmInfo.isFailureAlarm
    THEN [op |-> "success", serviceType |-> alarmInfo.serviceType,
          serviceLevel |-> alarmInfo.serviceLevel,
          responseTime |-> RecoveryResponseTime]
    ELSE [op |-> "failure", serviceType |-> alarmInfo.serviceType,
          errorType |-> IF Includes(alarmInfo.alarmName, "Timeout")
                        THEN "TimeoutError"
                        ELSE IF Includes(alarmInfo.alarmName, "Rate")
                        THEN "HighErrorRate"
                        ELSE "SystemError",
          serviceLevel |-> alarmInfo.serviceLevel]

\* the increment*Count call processFailureAlarm / processRecoveryAlarm
\* makes for an alarm, NoCall for an alarm the loop skips
AlarmCall(alarmInfo) ==
    IF alarmInfo.isOkState \/ ~alarmInfo.isAlarmState THEN NoCall
    ELSE IF alarmInfo.isFailureAlarm
    THEN [op |-> "failure", serviceType |-> alarmInfo.serviceType,
          errorType |-> IF Includes(alarmInfo.alarmName, "Timeout")
                        THEN "TimeoutError"
                        ELSE IF Includes(alarmInfo.alarmName, "Rate")
                        THEN "HighErrorRate"
                        ELSE "SystemError",
          serviceLevel |-> alarmInfo.serviceLevel]
    ELSE IF alarmInfo.isRecoveryAlarm
    THEN [op |-> "success", serviceType |-> alarmInfo.serviceType,
          serviceLevel |-> alarmInfo.serviceLevel,
          responseTime |-> RecoveryResponseTime]
    ELSE NoCall

\* an error of one record that ends the loop
AfterRecordErrorAborts == "done"

\* where the loop is after the catch block of one record: the catch is
\* inside the for loop, which goes on with the next record
AfterRecordError == "nextRecord"

\* results.push of the catch block of one record
ErrorResult(messageId, error) ==
    [messageId |-> messageId, processed |-> FALSE, error |-> error]

\* results.push after processFailureAlarm / processRecoveryAlarm returned
ProcessedResult(messageId, alarmName, processingResult) ==
    [messageId |-> messageId, alarmName |-> alarmName, processed |-> TRUE,
     transitioned |-> processingResult.transitioned,
     newLevel |-> processingResult.state.currentLevel]

\* every result entry counted as processed
ProcessedCountAll(results) == Len(results)

\* results.filter(r => r.processed).length
ProcessedCount(results) ==
    Cardinality({i \in 1..Len(results) : results[i].processed})

\* results.filter(r => !r.processed).length
ErrorCount(results) ==
    Cardinality({i \in 1..Len(results) : ~results[i].processed})

\* the response of exports.handler after the loop
Summary(results) ==
    [statusCode |-> 200,
     processed |-> ProcessedCount(results),
     errors |-> ErrorCount(results),
     results |-> results]

\* exports.handler is invoked with an SQS event of up to MaxBatch records;
\* the messageId of a record is its position in the event
BeginBatch(p, bodies) ==
    /\ pc[p] \in {"idle", "done"}
    /\ quota[p] > 0
    /\ Reset(p, "batch", NoCall, NoRequest)
    /\ \E n \in 0..MaxBatch :
          \E Records \in [1..n -> bodies] :
              batch' = [batch EXCEPT ![p] =
                          [shape |-> "array", Records |-> Records,
                           index |-> 0, results |-> <<>>]]
    /\ pc' = [pc EXCEPT ![p] = "nextRecord"]
    /\ UNCHANGED <<now, item, failureLog, successLog, start, hist>>

\* for (const record of event.Records): the next record is parsed; the loop
\* goes on to the one after it (parse error, OK state, no ALARM state,
\* unknown alarm type) or enters increment*Count
TakeRecord(p) ==
    /\ pc[p] = "nextRecord"
    /\ batch[p].index < Len(batch[p].Records)
    /\ LET messageId == batch[p].index + 1
           alarmInfo == ParseRecord(batch[p].Records[messageId])
           c == IF alarmInfo.ok THEN AlarmCall(alarmInfo) ELSE NoCall
       IN  /\ batch' = [batch EXCEPT
                          ![p].index = messageId,
                          ![p].results =
                              IF alarmInfo.ok THEN @
                              ELSE Append(@, ErrorResult(messageId,
                                                         alarmInfo.error))]
           /\ call' = [call EXCEPT ![p] = c]
           /\ calls' = [calls EXCEPT ![p] =
                           IF c = NoCall THEN @ ELSE Append(@, c)]
           /\ pc' = [pc EXCEPT ![p] =
                        IF ~alarmInfo.ok THEN AfterRecordError
                        ELSE IF c = NoCall THEN "nextRecord" ELSE "log"]
    /\ currentState' = [currentState EXCEPT ![p] = NoItem]
    /\ result' = [result EXCEPT ![p] = NoResult]
    /\ UNCHANGED <<now, item, failureLog, successLog, unit, request,
                   systemState, response, quota, start, hist>>

\* increment*Count has returned: the result of the record is pushed
RecordResult(p) ==
    /\ pc[p] = "recorded"
    /\ LET messageId == batch[p].index
           alarmInfo == ParseRecord(batch[p].Records[messageId])
       IN  batch' = [batch EXCEPT ![p].results =
                        Append(@, ProcessedResult(messageId,
                                                  alarmInfo.alarmName,
                                                  result[p]))]
    /\ pc' = [pc EXCEPT ![p] = "nextRecord"]
    /\ UNCHANGED <<now, item, failureLog, successLog, unit, call,
                   currentState, result, request, systemState, response,
                   calls, quota, start, hist>>

\* a table call of increment*Count rejects: the error is rethrown up to the
\* catch block of the record, and the loop goes on
RecordError(p) ==
    /\ unit[p] = "batch"
    /\ pc[p] \in {"log", "get", "create", "put"}
    /\ batch' = [batch EXCEPT ![p].results =
                    Append(@, ErrorResult(batch[p].index, "TableError"))]
    /\ pc' = [pc EXCEPT ![p] = AfterRecordError]
    /\ UNCHANGED <<now, item, failureLog, successLog, unit, call,
                   currentState, result, request, systemState, response,
                   calls, quota, start, hist>>

\* the loop is over: the counts and the response
FinishBatch(p) ==
    /\ pc[p] = "nextRecord"
    /\ batch[p].index = Len(batch[p].Records)
    /\ response' = [response EXCEPT ![p] = Summary(batch[p].results)]
    /\ pc' = [pc EXCEPT ![p] = "done"]
    /\ UNCHANGED <<batch, now, item, failureLog, successLog, unit, call,
                   currentState, result, request, systemState, calls, quota,
                   start, hist>>

\* what event.Records can be when it is no array: undefined (the event
\* has no Records), or an object that is not iterable and has no length
UnreadableShapes == {"undefined", "object"}

\* the handler ends with an exception instead of a response
RawException == [thrown |-> "TypeError"]

\* the response of the outer catch block: event.Records.length throws when
\* event.Records is undefined; JSON.stringify drops an undefined errors
CriticalErrorResponse(event) ==
    IF event.shape = "undefined" THEN RawException
    ELSE IF event.shape = "object"
    THEN [statusCode |-> 500, processed |-> 0]
    ELSE [statusCode |-> 500, processed |-> 0, errors |-> Len(event.Records)]

\* exports.handler is invoked with an event whose Records cannot be
\* iterated: for (const record of event.Records) throws
BeginUnreadableBatch(p) ==
    /\ pc[p] \in {"idle", "done"}
    /\ quota[p] > 0
    /\ Reset(p, "batch", NoCall, NoRequest)
    /\ \E shape \in UnreadableShapes :
          batch' = [batch EXCEPT ![p] =
                      [shape |-> shape, Records |-> <<>>, index |-> 0,
                       results |-> <<>>]]
    /\ pc' = [pc EXCEPT ![p] = "critical"]
    /\ UNCHANGED <<now, item, failureLog, successLog, start, hist>>

\* the outer catch block: after await publishMetric(...) the response is
\* built
CriticalError(p) ==
    /\ pc[p] = "critical"
    /\ response' = [response EXCEPT ![p] = CriticalErrorResponse(batch[p])]
    /\ pc' = [pc EXCEPT ![p] = "done"]
    /\ UNCHANGED <<batch, now, item, failureLog, successLog, unit, call,
                   currentState, result, request, systemState, calls, quota,
                   start, hist>>

\* a redelivered event recognised and dropped
RedeliverDeduplicated(p) ==
    /\ pc[p] = "done"
    /\ unit[p] = "batch"
    /\ batch[p].shape = "array"
    /\ quota[p] > 0
    /\ Reset(p, "batch", NoCall, NoRequest)
    /\ batch' = [batch EXCEPT ![p].results = <<>>]
    /\ pc' = [pc EXCEPT ![p] = "nextRecord"]
    /\ UNCHANGED <<now, item, failureLog, successLog, start, hist>>

\* exports.handler is invoked again with the event it has handled (the
\* queue delivers at least once): the handler keeps nothing between
\* invocations and looks at no messageId, the loop starts at the first
\* record
Redeliver(p) ==
    /\ pc[p] = "done"
    /\ unit[p] = "batch"
    /\ batch[p].shape = "array"
    /\ quota[p] > 0
    /\ Reset(p, "batch", NoCall, NoRequest)
    /\ batch' = [batch EXCEPT ![p].index = 0, ![p].results = <<>>]
    /\ pc' = [pc EXCEPT ![p] = "nextRecord"]
    /\ UNCHANGED <<now, item, failureLog, successLog, start, hist>>

AlarmProcessor(p) ==
    \/ TakeRecord(p)
    \/ RecordResult(p)
    \/ RecordError(p)
    \/ FinishBatch(p)

----------------------------------------------------------------------------
(* The state records a run can start from: the ones sequences of calls     *)
(* lead to, within the bounds                                              *)

Min(a, b) == IF a < b THEN a ELSE b

StartRecord(level, fc, sc, reason) ==
    [pk |-> "system-state", currentLevel |-> level, failureCount |-> fc,
     successCount |-> sc, lastTransition |-> 0, lastUpdated |-> 0,
     transitionReason |-> reason]

StartItems ==
    {NoItem}
    \cup {StartRecord(1, fc, sc, InitialReason) :
            fc \in 0..(FailuresTo2 - 1), sc \in 0..MaxStartSuccesses}
    \cup {StartRecord(2, fc, sc,
                      IF fc >= FailuresTo2
                      THEN [text |-> "Transition 1->2", count |-> FailuresTo2]
                      ELSE [text |-> "Recovery 3->2", count |-> SuccessesTo2]) :
            fc \in 0..(FailuresTo3 - 1),
            sc \in 0..Min(MaxStartSuccesses, SuccessesTo1 - 1)}
    \cup {StartRecord(3, fc, sc,
                      [text |-> "Transition 2->3", count |-> FailuresTo3]) :
            fc \in FailuresTo3..MaxStartFailures,
            sc \in 0..Min(MaxStartSuccesses, SuccessesTo2 - 1)}

InitWith(quotas) ==
    /\ now = 0
    /\ item \in StartItems
    /\ start = item
    /\ failureLog = {}
    /\ successLog = {}
    /\ pc = [p \in Procs |-> "idle"]
    /\ unit = [p \in Procs |-> "none"]
    /\ call = [p \in Procs |-> NoCall]
    /\ currentState = [p \in Procs |-> NoItem]
    /\ result = [p \in Procs |-> NoResult]
    /\ request = [p \in Procs |-> NoRequest]
    /\ systemState = [p \in Procs |-> NoItem]
    /\ response = [p \in Procs |-> NoResponse]
    /\ calls = [p \in Procs |-> <<>>]
    /\ quota = quotas
    /\ batch = [p \in Procs |-> NoBatch]
    /\ hist = <<>>

----------------------------------------------------------------------------
(* Sequential runs: one caller, one call after another, no other writer *)

SeqInit == InitWith([p \in Procs |-> IF p = Caller THEN MaxSeqCalls ELSE 0])

SeqNext ==
    \/ CallFailure(Caller, Levels)
    \/ CallSuccess(Caller, Levels)
    \/ Engine(Caller)

SeqSpec == SeqInit /\ [][SeqNext]_vars

----------------------------------------------------------------------------
(* Concurrent runs: two workers, each running increment*Count calls *)

Init == InitWith([p \in Procs |-> MaxConcCalls])

Next ==
    \E p \in Procs :
        \/ CallFailure(p, {1, 3})
        \/ CallSuccess(p, {1, 3})
        \/ Engine(p)

Spec == Init /\ [][Next]_vars

----------------------------------------------------------------------------
(* A worker suspended inside one call while the other one runs many *)

RaceInit ==
    /\ InitWith([p \in Procs |-> IF p = Caller THEN 1 ELSE MaxRaceCalls])
    /\ \/ item = NoItem
       \/ /\ item # NoItem
          /\ item.currentLevel = 1
          /\ item.failureCount = FailuresTo2 - 1

RaceNext ==
    \E p \in Procs :
        \/ CallFailure(p, {1})
        \/ CallSuccess(p, {1})
        \/ Engine(p)

RaceSpec == RaceInit /\ [][RaceNext]_vars

----------------------------------------------------------------------------
(* Controller requests, one after another: exports.handler has read or     *)
(* created the state record before increment*Count reads it                *)

RouteInit ==
    InitWith([p \in Procs |-> IF p = Caller THEN MaxRequests ELSE 0])

RouteNext ==
    \/ BeginRequest(Caller)
    \/ LogEvent(Caller)
    \/ GetState(Caller)
    \/ PutState(Caller)
    \/ Controller(Caller)

RouteSpec == RouteInit /\ [][RouteNext]_vars

----------------------------------------------------------------------------
(* Controller requests against a table whose calls may reject *)

FaultInit ==
    InitWith([p \in Procs |-> IF p = Caller THEN MaxRequests ELSE 0])

FaultNext ==
    \/ BeginRequest(Caller)
    \/ LogEvent(Caller)
    \/ GetState(Caller)
    \/ PutState(Caller)
    \/ Controller(Caller)
    \/ HandlerError(Caller)
    \/ RoutingError(Caller)

FaultSpec == FaultInit /\ [][FaultNext]_vars

----------------------------------------------------------------------------
(* One SQS event handled by the alarm processor, no other writer; table    *)
(* calls may reject. The run starts without state record, or from a record *)
(* without success streak that is one failure before a threshold or at     *)
(* level 3                                                                 *)

BatchInit ==
    /\ InitWith([p \in Procs |-> IF p = Caller THEN 1 ELSE 0])
    /\ \/ item = NoItem
       \/ /\ item # NoItem
          /\ item.failureCount \in {FailuresTo2 - 1, FailuresTo3 - 1, FailuresTo3}
          /\ item.successCount = 0

BatchNext ==
    \/ BeginBatch(Caller, Bodies)
    \/ Engine(Caller)
    \/ AlarmProcessor(Caller)

BatchSpec == BatchInit /\ [][BatchNext]_vars

----------------------------------------------------------------------------
(* One event handled by the alarm processor, an SQS event of ALARM          *)
(* notifications or an event without readable Records; no other writer,    *)
(* the table answers every call                                            *)

AlarmInit == InitWith([p \in Procs |-> IF p = Caller THEN 1 ELSE 0])

AlarmNext ==
    \/ BeginBatch(Caller, AlarmBodies)
    \/ BeginUnreadableBatch(Caller)
    \/ CriticalError(Caller)
    \/ Engine(Caller)
    \/ TakeRecord(Caller)
    \/ RecordResult(Caller)
    \/ FinishBatch(Caller)

AlarmSpec == AlarmInit /\ [][AlarmNext]_vars

----------------------------------------------------------------------------
(* One event of failure and recovery alarms delivered to the alarm         *)
(* processor up to MaxDeliveries times; no other writer, the table answers *)
(* every call                                                              *)

MaxDeliveries == 5

DeliveredBodies ==
    {Plain(Alarm(ErrorRateLevel1, "ALARM")),
     Plain(Alarm(RecoveryLevel3, "ALARM"))}

DeliveryInit ==
    InitWith([p \in Procs |-> IF p = Caller THEN MaxDeliveries ELSE 0])

DeliveryNext ==
    \/ /\ quota[Caller] = MaxDeliveries
       /\ BeginBatch(Caller, DeliveredBodies)
    \/ Redeliver(Caller)
    \/ Engine(Caller)
    \/ TakeRecord(Caller)
    \/ RecordResult(Caller)
    \/ FinishBatch(Caller)

DeliverySpec == DeliveryInit /\ [][DeliveryNext]_vars

----------------------------------------------------------------------------
(* Record calls and status requests of one worker while the clock goes on: *)
(* events are written in the first seconds, and read when five minutes     *)
(* have gone by                                                            *)

MaxQueryCalls == 4
MaxClock == 301

ClockTimes == {0, 1} \cup 300..MaxClock

\* time goes by between two steps of the worker
Tick ==
    /\ \E t \in ClockTimes : t > now /\ now' = t
    /\ UNCHANGED <<item, failureLog, successLog, pc, unit, call, currentState,
                   result, request, systemState, response, calls, quota,
                   batch, start, hist>>

QueryInit ==
    /\ InitWith([p \in Procs |-> IF p = Caller THEN MaxQueryCalls ELSE 0])
    /\ item = NoItem \/ item = StartRecord(1, 0, 0, InitialReason)

QueryNext ==
    \/ Tick
    \/ CallFailure(Caller, {1})
    \/ CallSuccess(Caller, {1})
    \/ Engine(Caller)
    \/ /\ BeginRequest(Caller)
       /\ request'[Caller].httpMethod = "GET"
    \/ HandlerGetState(Caller)
    \/ HandlerGetNoState(Caller)
    \/ HandlerCreateState(Caller)
    \/ StatusRecentFailures(Caller)
    \/ StatusRecentSuccesses(Caller)

QuerySpec == QueryInit /\ [][QueryNext]_vars

----------------------------------------------------------------------------
(* Sequential runs while the clock goes on: the time of a write differs    *)
(* from the times the record it read carries                               *)

MaxTimedCalls == 2

TimedInit ==
    InitWith([p \in Procs |-> IF p = Caller THEN MaxTimedCalls ELSE 0])

TimedNext ==
    \/ Tick
    \/ CallFailure(Caller, {1})
    \/ CallSuccess(Caller, {1})
    \/ Engine(Caller)

TimedSpec == TimedInit /\ [][TimedNext]_vars

----------------------------------------------------------------------------
(* Runs of one kind of call, one call after another: failures only, or      *)
(* successes only, from every start record                                  *)

MaxStreakCalls == 11

StreakInit ==
    InitWith([p \in Procs |-> IF p = Caller THEN MaxStreakCalls ELSE 0])

EscalationNext ==
    \/ CallFailure(Caller, {1})
    \/ Engine(Caller)

EscalationSpec == StreakInit /\ [][EscalationNext]_vars

RecoveryNext ==
    \/ CallSuccess(Caller, {1})
    \/ Engine(Caller)

RecoverySpec == StreakInit /\ [][RecoveryNext]_vars

----------------------------------------------------------------------------
(* One increment*Count call of one worker, from every start record; each   *)
(* table call may reject                                                   *)

CallFaultInit == InitWith([p \in Procs |-> IF p = Caller THEN 1 ELSE 0])

CallFaultNext ==
    \/ CallFailure(Caller, {1})
    \/ CallSuccess(Caller, {1})
    \/ Engine(Caller)
    \/ CallError(Caller)

CallFaultSpec == CallFaultInit /\ [][CallFaultNext]_vars

----------------------------------------------------------------------------
(* Properties of sequential runs (SeqSpec) *)

Failures(n) == [i \in 1..n |-> "failure"]
Successes(n) == [i \in 1..n |-> "success"]

\* the caller is between two calls: hist lists the calls it has completed
AtRest == pc[Caller] \in {"idle", "done"}

StartsAt(level, fc, sc) ==
    /\ start # NoItem
    /\ start.currentLevel = level
    /\ start.failureCount = fc
    /\ start.successCount = sc

\* C1: from {level 1, failureCount 0, successCount 0}, the level is 1 after
\* each of the first four recordFailure calls, and the fifth call returns
\* transitioned = true and leaves level 2, failureCount 5, successCount 0.
C1_FiveFailuresReachLevel2 ==
    (AtRest /\ StartsAt(1, 0, 0)) =>
        /\ \A n \in 1..(FailuresTo2 - 1) :
              hist = Failures(n) =>
                  /\ item.currentLevel = 1
                  /\ item.failureCount = n
                  /\ ~result[Caller].transitioned
        /\ hist = Failures(FailuresTo2) =>
              /\ item.currentLevel = 2
              /\ item.failureCount = 5
              /\ item.successCount = 0
              /\ result[Caller].transitioned

C1_Witness ==
    /\ AtRest
    /\ StartsAt(1, 0, 0)
    /\ hist = Failures(5)
    /\ item.currentLevel = 2
    /\ result[Caller].transitioned

\* C2: from level 3 with successCount 0 and any failureCount, the level is
\* 3 after the first two recordSuccess calls and the third leaves level 2,
\* failureCount 0, successCount 0.
C2_ThreeSuccessesLeaveLevel3 ==
    (AtRest /\ start # NoItem /\ start.currentLevel = 3
            /\ start.successCount = 0) =>
        /\ \A n \in 1..2 :
              hist = Successes(n) =>
                  /\ item.currentLevel = 3
                  /\ item.successCount = n
        /\ hist = Successes(3) =>
              /\ item.currentLevel = 2
              /\ item.failureCount = 0
              /\ item.successCount = 0

C2_Witness ==
    /\ AtRest
    /\ start # NoItem
    /\ start.currentLevel = 3
    /\ start.successCount = 0
    /\ start.failureCount > FailuresTo3
    /\ hist = Successes(3)
    /\ item.currentLevel = 2
    /\ item.failureCount = 0

\* C3: from level 2 with successCount 0 and any failureCount, the level is
\* 2 after the first four recordSuccess calls and the fifth leaves level 1,
\* failureCount 0, successCount 0.
C3_FiveSuccessesLeaveLevel2 ==
    (AtRest /\ start # NoItem /\ start.currentLevel = 2
            /\ start.successCount = 0) =>
        /\ \A n \in 1..4 :
              hist = Successes(n) =>
                  /\ item.currentLevel = 2
                  /\ item.successCount = n
        /\ hist = Successes(5) =>
              /\ item.currentLevel = 1
              /\ item.failureCount = 0
              /\ item.successCount = 0

C3_Witness ==
    /\ AtRest
    /\ start # NoItem
    /\ start.currentLevel = 2
    /\ start.successCount = 0
    /\ start.failureCount > 0
    /\ hist = Successes(5)
    /\ item.currentLevel = 1
    /\ item.failureCount = 0

\* C4: the 1->2 transition keeps failureCount (4 becomes 5 at level 2), and
\* from level 2 with failureCount 5 the level is 2 while failureCount is
\* 6..9 and the fifth further recordFailure leaves level 3, failureCount 10.
C4_FailureCountKeptAcrossLevel2 ==
    AtRest =>
        /\ (StartsAt(1, 4, 0) /\ hist = Failures(1)) =>
              /\ item.currentLevel = 2
              /\ item.failureCount = 5
        /\ (StartsAt(2, 5, 0)) =>
              /\ \A n \in 1..4 :
                    hist = Failures(n) =>
                        /\ item.currentLevel = 2
                        /\ item.failureCount = 5 + n
              /\ hist = Failures(5) =>
                    /\ item.currentLevel = 3
                    /\ item.failureCount = 10

C4_Witness ==
    /\ AtRest
    /\ StartsAt(2, 5, 0)
    /\ hist = Failures(5)
    /\ item.currentLevel = 3
    /\ item.failureCount = 10

FFFS == <<"failure", "failure", "failure", "success">>
FFFSFF == <<"failure", "failure", "failure", "success", "failure", "failure">>

\* C5 as stated: at level 1 a recordSuccess after three recordFailure calls
\* resets failureCount to 0, and after failure, failure, failure, success,
\* failure, failure from the initial state the level is still 1.
C5_SuccessResetsFailureCount ==
    (AtRest /\ StartsAt(1, 0, 0)) =>
        /\ hist = FFFS => item.failureCount = 0
        /\ hist = FFFSFF => item.currentLevel = 1

\* C5 amended: at level 1 a recordSuccess after three recordFailure calls
\* leaves failureCount at 3 (recordSuccess writes failureCount back as read
\* unless it performs a recovery), so the two failures that follow bring it
\* to 5 and the level to 2.
C5_SuccessKeepsFailureCount ==
    (AtRest /\ StartsAt(1, 0, 0)) =>
        /\ hist = FFFS =>
              /\ item.currentLevel = 1
              /\ item.failureCount = 3
              /\ item.successCount = 1
        /\ hist = FFFSFF =>
              /\ item.currentLevel = 2
              /\ item.failureCount = 5
              /\ result[Caller].transitioned

C5_Witness ==
    /\ AtRest
    /\ StartsAt(1, 0, 0)
    /\ hist = FFFSFF
    /\ item.currentLevel = 2
    /\ item.failureCount = 5

\* C7: every recordFailure call writes successCount = 0, so a recovery needs
\* its successes in a row: from level 3, success, success, failure, success
\* leaves level 3 with successCount 1.
C7_FailureBreaksSuccessStreak ==
    AtRest =>
        /\ (hist # <<>> /\ hist[Len(hist)] = "failure") =>
              item.successCount = 0
        /\ (start # NoItem /\ start.currentLevel = 3
              /\ start.successCount = 0
              /\ hist = <<"success", "success", "failure", "success">>) =>
              /\ item.currentLevel = 3
              /\ item.successCount = 1

C7_Witness ==
    /\ AtRest
    /\ start # NoItem
    /\ start.currentLevel = 3
    /\ start.successCount = 0
    /\ hist = <<"success", "success", "failure", "success">>
    /\ item.currentLevel = 3
    /\ item.successCount = 1

----------------------------------------------------------------------------
(* Properties of concurrent runs (Spec, RaceSpec) *)

Abs(x) == IF x < 0 THEN -x ELSE x

\* C6: the level a call writes differs from the level it read by at most
\* one: recordFailure writes the same level or the next higher one,
\* recordSuccess the same level or the next lower one.
C6_OneStepPerCall ==
    \A p \in Procs :
        (pc[p] = "done" /\ unit[p] = "record") =>
            LET read == currentState[p].currentLevel
                written == result[p].state.currentLevel
            IN  /\ call[p].op = "failure" => written \in {read, read + 1}
                /\ call[p].op = "success" => written \in {read, read - 1}
                /\ written \in Levels
                /\ Abs(written - read) <= 1

C6_Witness ==
    \E p, q \in Procs :
        /\ pc[p] = "done" /\ call[p].op = "failure"
        /\ result[p].state.currentLevel = currentState[p].currentLevel + 1
        /\ pc[q] = "done" /\ call[q].op = "success"
        /\ result[q].state.currentLevel = currentState[q].currentLevel

\* each worker has completed exactly one call, a recordFailure, and both
\* read the state record before either wrote it
TwoConcurrentFailures(n) ==
    \A p \in Procs :
        /\ pc[p] = "done"
        /\ quota[p] = MaxConcCalls - 1
        /\ call[p].op = "failure"
        /\ currentState[p].failureCount = n

\* C8: two concurrent recordFailure calls that both read failureCount n
\* before either wrote both complete and leave failureCount at n + 1.
C8_LostIncrement ==
    \A n \in 0..MaxStartFailures :
        TwoConcurrentFailures(n) => item.failureCount = n + 1

C8_Witness ==
    /\ TwoConcurrentFailures(3)
    /\ item.failureCount = 4
    /\ Cardinality(failureLog) = 1

\* C9 as stated: between two consecutive writes of the state record the
\* level never changes by more than one step.
C9_NoTwoStepChange ==
    [][(item # NoItem /\ item' # NoItem) =>
          Abs(item'.currentLevel - item.currentLevel) <= 1]_vars

\* C9 amended: the level a call writes differs by at most one step from the
\* level that call read, so a write changes the persisted level by at most
\* one step whenever the level is still the one the call read.
C9_OneStepFromTheLevelRead ==
    [][\A p \in Procs :
          (pc[p] = "put" /\ pc'[p] # "put") =>
              /\ Abs(item'.currentLevel - currentState[p].currentLevel) <= 1
              /\ item.currentLevel = currentState[p].currentLevel =>
                    Abs(item'.currentLevel - item.currentLevel) <= 1]_vars

\* the suspended caller wrote level 1 over the level 3 the other worker's
\* last call had written
C9_Witness ==
    /\ pc[Caller] = "done"
    /\ \A p \in Procs : quota[p] = 0 /\ pc[p] = "done"
    /\ \E p \in Procs \ {Caller} : result[p].state.currentLevel = 3
    /\ item = [result[Caller].state EXCEPT !.lastUpdated = item.lastUpdated]
    /\ item.currentLevel = 1

----------------------------------------------------------------------------
(* Properties of controller requests (RouteSpec) *)

PostDone(p) ==
    /\ pc[p] = "done"
    /\ unit[p] = "request"
    /\ request[p].httpMethod = "POST"

\* C10: a POST whose handler invocation itself fails (lambda.send rejects,
\* or answers with a FunctionError) calls recordFailure exactly once, with
\* LambdaExecutionError, never recordSuccess, raises failureCount by one and
\* returns 503.
C10_InvocationFailureCountsOnce ==
    \A p \in Procs :
        (PostDone(p) /\ request[p].outcome.kind \in {"throws", "FunctionError"}) =>
            /\ Len(calls[p]) = 1
            /\ calls[p][1].op = "failure"
            /\ calls[p][1].errorType = "LambdaExecutionError"
            /\ item.failureCount = systemState[p].failureCount + 1
            /\ response[p].statusCode = 503

\* the POST of worker p is over and lambda.send had answered with a Payload
\* that parsed into a response
ParsedDone(p) ==
    /\ PostDone(p)
    /\ request[p].outcome.kind = "parsed"

\* C11: for every handler response that the controller receives and parses,
\* exactly one record call is made: recordFailure with ServiceError if and
\* only if the statusCode is >= 400, recordSuccess otherwise; the call runs
\* to its write and the handler's own response is what the controller returns.
C11_ParsedResponseRecordedOnce ==
    \A p \in Procs :
        ParsedDone(p) =>
            LET o == request[p].outcome
            IN  /\ Len(calls[p]) = 1
                /\ calls[p][1].op \in {"failure", "success"}
                /\ calls[p][1].op = "failure" <=> o.statusCode >= 400
                /\ calls[p][1].op = "failure" =>
                      calls[p][1].errorType = "ServiceError"
                /\ result[p] # NoResult
                /\ response[p].statusCode = o.statusCode
                /\ response[p].status = "handler"

\* a handler response with statusCode 400 was recorded as a ServiceError
\* failure and returned to the client
C11_Witness ==
    /\ ParsedDone(Caller)
    /\ request[Caller].outcome.statusCode = 400
    /\ calls[Caller] = <<call[Caller]>>
    /\ call[Caller].errorType = "ServiceError"
    /\ item.failureCount = systemState[Caller].failureCount + 1
    /\ response[Caller].statusCode = 400

----------------------------------------------------------------------------
(* Properties of controller requests when table calls may reject (FaultSpec) *)

\* C12: on every path of one controller request (handler success, handler
\* error status, FunctionError, thrown exception, table error) at most one
\* record call is made, and the stored failureCount and successCount are at
\* most one above the values the request read, never both.
C12_AtMostOneRecordCall ==
    \A p \in Procs :
        unit[p] = "request" =>
            /\ Len(calls[p]) <= 1
            /\ request[p].httpMethod # "POST" => calls[p] = <<>>
            /\ (item # NoItem /\ systemState[p] # NoItem) =>
                  /\ item.failureCount <= systemState[p].failureCount + 1
                  /\ item.successCount <= systemState[p].successCount + 1
                  /\ \/ item.failureCount <= systemState[p].failureCount
                     \/ item.successCount <= systemState[p].successCount

\* the handler answered with an error status, the failure event was logged,
\* then the write of the state record was rejected: one call, no increment
C12_Witness ==
    /\ ParsedDone(Caller)
    /\ request[Caller].outcome.statusCode = 503
    /\ response[Caller] = FallbackResponse(systemState[Caller])
    /\ Len(calls[Caller]) = 1
    /\ currentState[Caller] # NoItem
    /\ failureLog # {}
    /\ item.failureCount = systemState[Caller].failureCount

\* the step in which the first read of the state record by exports.handler
\* is rejected and the request is answered
ReadFails(p) ==
    /\ unit[p] = "request"
    /\ pc[p] = "ctlGet"
    /\ pc'[p] = "done"
    /\ systemState'[p] = NoItem

\* nothing in the table changes and the request has made no record call
NothingRecorded(p) ==
    /\ item' = item
    /\ failureLog' = failureLog
    /\ successLog' = successLog
    /\ calls'[p] = <<>>

\* C13 as stated: when the state record cannot be read at the start of a
\* request, the controller makes no record call and no write, and answers
\* with a maintenance-mode response whose status code is 503.
C13_UnreadableStoreAnswers503 ==
    [][\A p \in Procs :
          ReadFails(p) =>
              /\ NothingRecorded(p)
              /\ response'[p].level = 3
              /\ response'[p].statusCode = 503]_vars

\* C13 amended: when the state record cannot be read at the start of a
\* request, the controller makes no record call and no write, and answers
\* with a maintenance-mode response (level 3, maintenance-service) whose
\* status code is 500.
C13_UnreadableStoreAnswers500 ==
    [][\A p \in Procs :
          ReadFails(p) =>
              /\ NothingRecorded(p)
              /\ response'[p].level = 3
              /\ response'[p].activeService = "maintenance-service"
              /\ response'[p].statusCode = 500]_vars

\* the first request of the run found the table unreachable: the record it
\* started from is still there and the answer is the controller's error
C13_Witness ==
    /\ pc[Caller] = "done"
    /\ unit[Caller] = "request"
    /\ request[Caller].httpMethod = "POST"
    /\ quota[Caller] = MaxRequests - 1
    /\ systemState[Caller] = NoItem
    /\ calls[Caller] = <<>>
    /\ item = start
    /\ item # NoItem
    /\ response[Caller] = ControllerErrorResponse

\* the response carries the level read at dispatch and the handler chosen
DispatchMetadata(p) ==
    /\ "level" \in DOMAIN response[p]
    /\ "routedTo" \in DOMAIN response[p]
    /\ response[p].level = systemState[p].currentLevel
    /\ response[p].routedTo = ServiceTypeMap(systemState[p].currentLevel)

\* C14 as stated: every response of a POST that read a level, on the success
\* path and on every failure path, carries X-Circuit-Breaker-Level = the
\* level read at dispatch and X-Routed-To = the handler chosen for it.
C14_EveryResponseCarriesDispatchLevel ==
    \A p \in Procs :
        (PostDone(p) /\ systemState[p] # NoItem) => DispatchMetadata(p)

\* C14 amended: the FunctionError response and a handler response that has
\* headers carry the level read at dispatch and the handler chosen, even
\* when the request caused a transition; a handler response without headers
\* is returned without metadata; the fallback of the catch block carries
\* level 3 and 'maintenance-fallback' and names the dispatch level only in
\* its body; the error response of exports.handler carries level 3.
C14_RoutingMetadataByPath ==
    \A p \in Procs :
        PostDone(p) =>
            LET o == request[p].outcome
                r == response[p]
            IN  /\ r.status \in {"service_failure", "handler", "routing_error",
                                 "error"}
                /\ r.status = "service_failure" =>
                      o.kind = "FunctionError" /\ DispatchMetadata(p)
                /\ r.status = "handler" =>
                      /\ o.kind = "parsed"
                      /\ o.headers => DispatchMetadata(p)
                      /\ ~o.headers => DOMAIN r = {"statusCode", "status"}
                /\ r.status = "routing_error" =>
                      /\ r.level = 3
                      /\ r.routedTo = "maintenance-fallback"
                      /\ r.originalLevel = systemState[p].currentLevel
                /\ r.status = "error" =>
                      /\ o = NoOutcome
                      /\ r.level = 3
                      /\ "routedTo" \notin DOMAIN r
                /\ o.kind \in {"throws", "noPayload", "badPayload"} =>
                      r.status = "routing_error"

\* a POST dispatched at level 1 whose handler answered 503 with headers made
\* the fifth failure: the record is at level 2, the response says level 1
C14_Witness ==
    /\ ParsedDone(Caller)
    /\ request[Caller].outcome.headers
    /\ request[Caller].outcome.statusCode = 503
    /\ result[Caller].transitioned
    /\ item.currentLevel = 2
    /\ response[Caller].level = 1
    /\ response[Caller].routedTo = "full-service"

----------------------------------------------------------------------------
(* Properties of GET and unsupported requests (RouteSpec) *)

\* the step is one of a GET request of worker p, its start included
GetStep(p) ==
    /\ unit'[p] = "request"
    /\ request'[p].httpMethod = "GET"
    /\ pc'[p] # pc[p]

\* C15: a GET status request never makes a record call and appends no
\* event; when a state record exists the request leaves it unchanged and
\* reports exactly its level, failureCount and successCount.
C15_StatusRequestOnlyReads ==
    [][\A p \in Procs :
          GetStep(p) =>
              /\ calls'[p] = <<>>
              /\ call'[p] = NoCall
              /\ failureLog' = failureLog
              /\ successLog' = successLog
              /\ item # NoItem => item' = item
              /\ (item # NoItem /\ pc'[p] = "done") =>
                    /\ response'[p].statusCode = 200
                    /\ response'[p].level = item.currentLevel
                    /\ response'[p].failureCount = item.failureCount
                    /\ response'[p].successCount = item.successCount]_vars

\* a GET after a POST that recorded the sixth failure at level 2: the
\* response reports level 2 with failureCount 6, one recent failure
C15_Witness ==
    /\ pc[Caller] = "done"
    /\ unit[Caller] = "request"
    /\ request[Caller].httpMethod = "GET"
    /\ calls[Caller] = <<>>
    /\ failureLog # {}
    /\ item.failureCount = 6
    /\ response[Caller].level = 2
    /\ response[Caller].failureCount = 6
    /\ response[Caller].successCount = item.successCount
    /\ response[Caller].recentFailures = 1

\* C16: a request whose method is neither GET nor POST is answered with
\* status 405 and the Allow list GET, POST, is never handed to a level
\* handler and makes no record call.
C16_OtherMethodsAnswered405 ==
    \A p \in Procs :
        (unit[p] = "request" /\ request[p].httpMethod \notin {"GET", "POST"}) =>
            /\ pc[p] \in {"ctlGet", "ctlCreate", "done"}
            /\ request[p].outcome = NoOutcome
            /\ calls[p] = <<>>
            /\ call[p] = NoCall
            /\ pc[p] = "done" =>
                  /\ response[p].statusCode = 405
                  /\ response[p].allow = {"GET", "POST"}

\* a PUT at a level-2 record was answered 405 and left the record alone
C16_Witness ==
    /\ pc[Caller] = "done"
    /\ unit[Caller] = "request"
    /\ request[Caller].httpMethod = "PUT"
    /\ response[Caller] = MethodNotAllowed
    /\ systemState[Caller] = item
    /\ item.currentLevel = 2
    /\ failureLog = {}
    /\ successLog = {}

----------------------------------------------------------------------------
(* Properties of getSystemState under concurrent calls (Spec) *)

\* the record getSystemState creates
IsDefault(rec) ==
    /\ rec # NoItem
    /\ rec.pk = "system-state"
    /\ rec.currentLevel = 1
    /\ rec.failureCount = 0
    /\ rec.successCount = 0
    /\ rec.transitionReason = [text |-> "Initial state", count |-> 0]

\* C17: getSystemState on a table without state record persists and returns
\* the default record {level 1, failureCount 0, successCount 0, "Initial
\* state"}; on a table with a record it returns that record and writes
\* nothing; the table never holds a state record under another key.
C17_LazyCreation ==
    [][\A p \in Procs :
          /\ (pc[p] = "get" /\ pc'[p] # "get" /\ item # NoItem) =>
                /\ currentState'[p] = item
                /\ item' = item
                /\ pc'[p] = "put"
          /\ (pc[p] = "get" /\ pc'[p] # "get" /\ item = NoItem) =>
                /\ IsDefault(currentState'[p])
                /\ item' = item
                /\ pc'[p] = "create"
          /\ (pc[p] = "create" /\ pc'[p] # "create") =>
                /\ IsDefault(item')
                /\ IsDefault(currentState'[p])
                /\ pc'[p] = "put"
          /\ item' # NoItem => item'.pk = "system-state"]_vars

\* a call found no record, created the default one and is about to write
\* its own update over it
C17_Witness ==
    \E p \in Procs :
        /\ start = NoItem
        /\ pc[p] = "put"
        /\ IsDefault(currentState[p])
        /\ IsDefault(item)
        /\ \A q \in Procs \ {p} : pc[q] = "idle"

----------------------------------------------------------------------------
(* Properties of the alarm processor (BatchSpec) *)

\* the step takes record k of the event of worker p
Takes(p, k) ==
    /\ unit[p] = "batch"
    /\ batch[p].index = k - 1
    /\ batch'[p].index = k

\* the alarm of a well-formed body
AlarmOf(body) ==
    IF body.Type = "Notification" THEN body.Message.alarm ELSE body.alarm

\* record k of the event of worker p is a well-formed notification of the
\* OK state
IsOk(p, k) ==
    /\ k \in 1..Len(batch[p].Records)
    /\ batch[p].Records[k].json
    /\ AlarmOf(batch[p].Records[k]).NewStateValue = "OK"

\* C18: processing a notification whose new state is OK, whatever its name
\* and class, makes no record call: the state record and both event logs
\* are the same before and after the item, and the loop is at the next one.
C18_OkNotificationChangesNothing ==
    [][\A p \in Procs : \A k \in 1..(MaxBatch + 1) :
          (Takes(p, k) /\ IsOk(p, k)) =>
              /\ calls'[p] = calls[p]
              /\ call'[p] = NoCall
              /\ item' = item
              /\ failureLog' = failureLog
              /\ successLog' = successLog
              /\ batch'[p].results = batch[p].results
              /\ pc'[p] = "nextRecord"]_vars

\* an event of a failure alarm followed by the OK notifications of a
\* failure alarm and of a recovery alarm: one call, made by the first item
C18_Witness ==
    /\ pc[Caller] = "done"
    /\ unit[Caller] = "batch"
    /\ batch[Caller].Records =
          <<Plain(Alarm(ErrorRateLevel1, "ALARM")),
            Plain(Alarm(ErrorRateLevel1, "OK")),
            Plain(Alarm(RecoveryLevel3, "OK"))>>
    /\ Len(calls[Caller]) = 1
    /\ Len(batch[Caller].results) = 1
    /\ batch[Caller].results[1].processed
    /\ item # NoItem
    /\ item.failureCount = FailuresTo2
    /\ successLog = {}

\* the step pushes the result of a failed record of the event of worker p
PushesError(p) ==
    /\ unit[p] = "batch"
    /\ Len(batch'[p].results) = Len(batch[p].results) + 1
    /\ ~batch'[p].results[Len(batch'[p].results)].processed

\* a record that leads to an increment*Count call
Actionable(body) ==
    /\ ParseRecord(body).ok
    /\ AlarmCall(ParseRecord(body)) # NoCall

\* C19: a record that fails (malformed JSON, or an error thrown while it is
\* applied) gets a result with processed = false and an error text; the
\* state record, the logs and the earlier results stay as the records
\* before it left them; the loop goes on, so that at the end every record
\* has been taken and every actionable one has led to its call.
C19_PerItemIsolation ==
    [][\A p \in Procs :
          /\ PushesError(p) =>
                LET entry == batch'[p].results[Len(batch'[p].results)]
                IN  /\ entry.messageId = batch'[p].index
                    /\ entry.error \in {"SyntaxError", "TableError"}
                    /\ SubSeq(batch'[p].results, 1, Len(batch[p].results))
                          = batch[p].results
                    /\ item' = item
                    /\ failureLog' = failureLog
                    /\ successLog' = successLog
                    /\ pc'[p] = "nextRecord"
          /\ (unit'[p] = "batch" /\ pc'[p] = "done") =>
                /\ batch'[p].index = Len(batch'[p].Records)
                /\ Len(calls'[p]) =
                      Cardinality({k \in 1..Len(batch'[p].Records) :
                                     Actionable(batch'[p].Records[k])})]_vars

\* failure alarm, malformed record, failure alarm from level 1 with four
\* failures: the first item made the transition to level 2, the second
\* failed, the third raised failureCount to 6
C19_Witness ==
    /\ pc[Caller] = "done"
    /\ unit[Caller] = "batch"
    /\ batch[Caller].Records =
          <<Plain(Alarm(ErrorRateLevel1, "ALARM")),
            Malformed,
            Plain(Alarm(ErrorRateLevel1, "ALARM"))>>
    /\ StartsAt(1, FailuresTo2 - 1, 0)
    /\ Len(batch[Caller].results) = 3
    /\ batch[Caller].results[1].processed
    /\ batch[Caller].results[1].transitioned
    /\ ~batch[Caller].results[2].processed
    /\ batch[Caller].results[3].processed
    /\ batch[Caller].results[3].newLevel = 2
    /\ item.failureCount = FailuresTo2 + 1

\* the event of worker p has been handled and the summary returned
BatchDone(p) ==
    /\ pc[p] = "done"
    /\ unit[p] = "batch"

\* a record body that is no JSON, or whose SNS Message is no JSON
IsMalformed(body) ==
    \/ ~body.json
    \/ body.Type = "Notification" /\ ~body.Message.json

\* a well-formed notification the loop skips: its state is not ALARM, or
\* its name is neither failure-class nor recovery-class
IsSkipped(body) ==
    /\ ~IsMalformed(body)
    /\ \/ AlarmOf(body).NewStateValue # "ALARM"
       \/ AlarmOf(body).AlarmName.words
            \cap {"ErrorRate", "Failure", "Recovery", "Success"} = {}

\* C20 as stated: the summary satisfies processed + errors = number of
\* records of the event and has one result entry per record.
C20_SummaryCountsEveryItem ==
    \A p \in Procs :
        BatchDone(p) =>
            /\ response[p].processed + response[p].errors
                  = Len(batch[p].Records)
            /\ Len(response[p].results) = Len(batch[p].Records)

\* C20 amended: the summary has one result entry, in event order, for each
\* record that is malformed or actionable, and none for a skipped record
\* (state not ALARM, or unknown class); processed + errors = number of
\* those entries; malformed records and records whose call threw are the
\* errors, records whose call returned are the processed ones.
C20_SummaryCountsResultEntries ==
    \A p \in Procs :
        BatchDone(p) =>
            LET R == batch[p].Records
                res == response[p].results
                kept == {k \in 1..Len(R) : ~IsSkipped(R[k])}
                malformed == {k \in 1..Len(R) : IsMalformed(R[k])}
                thrown == {i \in 1..Len(res) :
                             ~res[i].processed /\ res[i].error = "TableError"}
            IN  /\ response[p].statusCode = 200
                /\ {res[i].messageId : i \in 1..Len(res)} = kept
                /\ Len(res) = Cardinality(kept)
                /\ \A i, j \in 1..Len(res) :
                      i < j => res[i].messageId < res[j].messageId
                /\ \A i \in 1..Len(res) :
                      res[i].messageId \in malformed =>
                          ~res[i].processed /\ res[i].error = "SyntaxError"
                /\ response[p].errors
                      = Cardinality(malformed) + Cardinality(thrown)
                /\ response[p].processed
                      = Cardinality(kept) - response[p].errors
                /\ response[p].processed = Len(calls[p]) - Cardinality(thrown)

\* an OK notification, a malformed record and a failure alarm: two result
\* entries, processed 1, errors 1
C20_Witness ==
    /\ BatchDone(Caller)
    /\ batch[Caller].Records =
          <<Plain(Alarm(RecoveryLevel3, "OK")),
            Malformed,
            Plain(Alarm(ErrorRateLevel1, "ALARM"))>>
    /\ Len(response[Caller].results) = 2
    /\ response[Caller].results[1].messageId = 2
    /\ response[Caller].results[2].messageId = 3
    /\ response[Caller].processed = 1
    /\ response[Caller].errors = 1

\* a well-formed notification of the ALARM state
IsAlarm(body) ==
    /\ ~IsMalformed(body)
    /\ AlarmOf(body).NewStateValue = "ALARM"

\* the name of the notification contains ErrorRate or Failure
FailureClass(body) ==
    AlarmOf(body).AlarmName.words \cap {"ErrorRate", "Failure"} # {}

\* the name of the notification contains Recovery or Success
RecoveryClass(body) ==
    AlarmOf(body).AlarmName.words \cap {"Recovery", "Success"} # {}

\* C22: a notification entering the ALARM state whose name is neither
\* failure-class nor recovery-class is skipped silently: the step that takes
\* it makes no record call, leaves the state record and both logs unchanged
\* and pushes no result, so the summary has no entry for it, neither among
\* the errors nor among the processed.
C22_UnknownClassSkipped ==
    [][\A p \in Procs :
          /\ \A k \in 1..(MaxBatch + 1) :
                (/\ Takes(p, k)
                 /\ IsAlarm(batch[p].Records[k])
                 /\ ~FailureClass(batch[p].Records[k])
                 /\ ~RecoveryClass(batch[p].Records[k])) =>
                    /\ calls'[p] = calls[p]
                    /\ call'[p] = NoCall
                    /\ item' = item
                    /\ failureLog' = failureLog
                    /\ successLog' = successLog
                    /\ batch'[p].results = batch[p].results
                    /\ pc'[p] = "nextRecord"
          /\ (unit'[p] = "batch" /\ pc'[p] = "done") =>
                \A i \in 1..Len(response'[p].results) :
                    LET body == batch'[p].Records[response'[p].results[i].messageId]
                    IN  IsAlarm(body) =>
                            FailureClass(body) \/ RecoveryClass(body)]_vars

\* an event of a Latency alarm between a malformed record and a failure
\* alarm: errors 1 (the malformed record), processed 1
C22_Witness ==
    /\ BatchDone(Caller)
    /\ batch[Caller].Records =
          <<Malformed,
            Plain(Alarm(LatencyLevel2, "ALARM")),
            Plain(Alarm(ErrorRateLevel1, "ALARM"))>>
    /\ Len(calls[Caller]) = 1
    /\ response[Caller].errors = 1
    /\ response[Caller].processed = 1
    /\ response[Caller].results[2].messageId = 3

\* the event of worker p made table calls and the table rejected every one
\* of them: each call stopped at its first put, so the logs and the state
\* record are as the run found them
StoreUnavailable(p) ==
    /\ \E i \in 1..Len(batch[p].results) :
          /\ ~batch[p].results[i].processed
          /\ batch[p].results[i].error = "TableError"
    /\ failureLog = {}
    /\ successLog = {}
    /\ item = start

\* C24 as stated: when the table is unavailable while an event is handled,
\* the summary counts every record of the event as an error and none as
\* processed.
C24_WholeBatchErrored ==
    \A p \in Procs :
        (BatchDone(p) /\ StoreUnavailable(p)) =>
            /\ response[p].errors = Len(batch[p].Records)
            /\ response[p].processed = 0

\* C24 amended: when the table is unavailable while an event is handled, the
\* handler still answers 200; no record is counted as processed; the
\* errors are the malformed records and the ALARM notifications of failure
\* or recovery class, each with its own result entry; skipped records (state
\* not ALARM, unknown class) are not counted.
C24_ActionableRecordsErrored ==
    \A p \in Procs :
        (BatchDone(p) /\ StoreUnavailable(p)) =>
            LET R == batch[p].Records
                res == response[p].results
                kept == {k \in 1..Len(R) : ~IsSkipped(R[k])}
            IN  /\ response[p].statusCode = 200
                /\ response[p].processed = 0
                /\ response[p].errors = Cardinality(kept)
                /\ {res[i].messageId : i \in 1..Len(res)} = kept
                /\ \A i \in 1..Len(res) :
                      /\ ~res[i].processed
                      /\ res[i].error =
                            IF IsMalformed(R[res[i].messageId])
                            THEN "SyntaxError" ELSE "TableError"

\* a failure alarm, an OK notification and a recovery alarm while the
\* table rejects every call: errors 2, processed 0, the record untouched
C24_Witness ==
    /\ BatchDone(Caller)
    /\ StoreUnavailable(Caller)
    /\ batch[Caller].Records =
          <<Plain(Alarm(ErrorRateLevel1, "ALARM")),
            Plain(Alarm(ErrorRateLevel1, "OK")),
            Wrapped(Alarm(RecoveryLevel3, "ALARM"))>>
    /\ response[Caller].errors = 2
    /\ response[Caller].processed = 0
    /\ start # NoItem

----------------------------------------------------------------------------
(* Properties of the alarm processor when the table answers (AlarmSpec) *)

\* C21: a well-formed notification entering the ALARM state causes exactly
\* one record call: recordFailure if its name is failure-class, otherwise
\* recordSuccess with response time 50 if its name is recovery-class; the
\* call's write raises the counter of the stored record by one (or resets
\* successCount with the recovery it triggers), and at the end of the event
\* there has been one completed call per such notification.
C21_OneCallPerAlarm ==
    [][\A p \in Procs :
          /\ \A k \in 1..(MaxBatch + 1) :
                (Takes(p, k) /\ IsAlarm(batch[p].Records[k])) =>
                    LET body == batch[p].Records[k]
                    IN  /\ FailureClass(body) =>
                              /\ call'[p].op = "failure"
                              /\ calls'[p] = Append(calls[p], call'[p])
                              /\ pc'[p] = "log"
                        /\ (RecoveryClass(body) /\ ~FailureClass(body)) =>
                              /\ call'[p].op = "success"
                              /\ call'[p].responseTime = 50
                              /\ calls'[p] = Append(calls[p], call'[p])
                              /\ pc'[p] = "log"
          /\ (unit[p] = "batch" /\ pc[p] = "put" /\ pc'[p] = "recorded") =>
                /\ call[p].op = "failure" =>
                      item'.failureCount = item.failureCount + 1
                /\ call[p].op = "success" =>
                      item'.successCount =
                          IF result'[p].transitioned THEN 0
                          ELSE item.successCount + 1
                /\ hist' = Append(hist, call[p].op)
          /\ (unit'[p] = "batch" /\ pc'[p] = "done") =>
                LET R == batch'[p].Records
                    alarms == {k \in 1..Len(R) :
                                 /\ IsAlarm(R[k])
                                 /\ FailureClass(R[k]) \/ RecoveryClass(R[k])}
                IN  /\ Len(calls'[p]) = Cardinality(alarms)
                    /\ Len(hist') = Cardinality(alarms)
                    /\ \A i \in 1..Len(hist') : hist'[i] = calls'[p][i].op]_vars

\* a Failure-Timeout alarm, a Success alarm and a Recovery alarm handled
\* from level 3 with one success: a failure, then two successes
C21_Witness ==
    /\ BatchDone(Caller)
    /\ batch[Caller].Records =
          <<Plain(Alarm(FailureTimeout, "ALARM")),
            Plain(Alarm(SuccessLevel2, "ALARM")),
            Wrapped(Alarm(RecoveryLevel3, "ALARM"))>>
    /\ hist = <<"failure", "success", "success">>
    /\ calls[Caller][1].errorType = "TimeoutError"
    /\ calls[Caller][2].responseTime = 50
    /\ StartsAt(3, FailuresTo3, 1)
    /\ item.failureCount = FailuresTo3 + 1
    /\ item.successCount = 2
    /\ response[Caller].processed = 3

----------------------------------------------------------------------------
(* Properties of repeated deliveries (DeliverySpec) *)

RECURSIVE Repeat(_, _)
Repeat(s, k) == IF k = 0 THEN <<>> ELSE s \o Repeat(s, k - 1)

\* the calls the records of an event ask for, one per record
OpsOf(Records) ==
    [k \in 1..Len(Records) |-> AlarmCall(ParseRecord(Records[k])).op]

\* how often the event of worker p has been handed to the handler
Deliveries(p) == MaxDeliveries - quota[p]

\* the calls of every delivery made so far of every record: the earlier
\* deliveries of the whole event, and the records of this delivery the loop
\* has gone past
DeliveredOps(p) ==
    Repeat(OpsOf(batch[p].Records), Deliveries(p) - 1)
        \o SubSeq(OpsOf(batch[p].Records), 1, batch[p].index)

BetweenRecords(p) == unit[p] = "batch" /\ pc[p] \in {"nextRecord", "done"}

StartFailureCount == IF start = NoItem THEN 0 ELSE start.failureCount

\* C25: notifications are not deduplicated. Every delivery of every
\* actionable record is applied, in one event and across deliveries of the
\* event; k deliveries of a failure alarm, with nothing else delivered,
\* raise failureCount by k, and the fifth delivery from the initial state
\* moves the level from 1 to 2.
C25_EveryDeliveryApplied ==
    BetweenRecords(Caller) =>
        /\ hist = DeliveredOps(Caller)
        /\ \A k \in 1..(MaxDeliveries * MaxBatch) :
              hist = Failures(k) =>
                  /\ item.failureCount = StartFailureCount + k
                  /\ (start = NoItem \/ StartsAt(1, 0, 0)) =>
                        /\ k < FailuresTo2 => item.currentLevel = 1
                        /\ k = FailuresTo2 => item.currentLevel = 2

\* an event of three failure alarms is delivered a second time from the
\* initial state: the second record of the second delivery is the fifth
\* increment and moves the level to 2
C25_Witness ==
    /\ pc[Caller] = "nextRecord"
    /\ unit[Caller] = "batch"
    /\ StartsAt(1, 0, 0)
    /\ Deliveries(Caller) = 2
    /\ batch[Caller].Records =
          [k \in 1..3 |-> Plain(Alarm(ErrorRateLevel1, "ALARM"))]
    /\ batch[Caller].index = 2
    /\ hist = Failures(FailuresTo2)
    /\ item.currentLevel = 2
    /\ item.failureCount = FailuresTo2

----------------------------------------------------------------------------
(* Properties of the window queries (QuerySpec) *)

WindowSeconds == 300

IsFailureEvent(e) == "errorType" \in DOMAIN e
IsSuccessEvent(e) == "responseTime" \in DOMAIN e

\* the events of a stream from now - 300 s to now, both ends included
ClosedWindow(log) == {e \in log : now - WindowSeconds <= e.sk /\ e.sk <= now}

\* the events of a stream later than now - 300 s and not later than now
HalfOpenWindow(log) == {e \in log : now - WindowSeconds < e.sk /\ e.sk <= now}

\* the step in which handleStatusRequest reads the failure stream
ReadsFailures(p) == pc[p] = "recentFailures" /\ pc'[p] = "recentSuccesses"

\* the step in which handleStatusRequest reads the success stream
ReadsSuccesses(p) == pc[p] = "recentSuccesses" /\ pc'[p] = "done"

\* C26 as stated: a query with a 5-minute window returns exactly the events
\* of its stream with occurredAt in [now - 300 s, now]; the event exactly at
\* now - 300 s is included, and no event of the other stream is returned.
C26_WindowClosedAtThreshold ==
    [][/\ Recent(failureLog, 5) = ClosedWindow(failureLog)
       /\ Recent(successLog, 5) = ClosedWindow(successLog)
       /\ \A p \in Procs :
             /\ ReadsFailures(p) =>
                   response'[p].recentFailures =
                       Cardinality(ClosedWindow(failureLog))
             /\ ReadsSuccesses(p) =>
                   response'[p].recentSuccesses =
                       Cardinality(ClosedWindow(successLog))]_vars

\* C26 amended: a query with a 5-minute window returns exactly the events
\* of its stream with occurredAt in (now - 300 s, now]: the event at
\* now - 301 s and the event exactly at now - 300 s are excluded, every
\* later event is included, and no event of the other stream is returned.
C26_WindowOpenAtThreshold ==
    [][/\ Recent(failureLog, 5) = HalfOpenWindow(failureLog)
       /\ Recent(successLog, 5) = HalfOpenWindow(successLog)
       /\ \A e \in Recent(failureLog, 5) : IsFailureEvent(e) /\ ~IsSuccessEvent(e)
       /\ \A e \in Recent(successLog, 5) : IsSuccessEvent(e) /\ ~IsFailureEvent(e)
       /\ \A p \in Procs :
             /\ ReadsFailures(p) =>
                   response'[p].recentFailures =
                       Cardinality(HalfOpenWindow(failureLog))
             /\ ReadsSuccesses(p) =>
                   response'[p].recentSuccesses =
                       Cardinality(HalfOpenWindow(successLog))]_vars

\* failures at second 0 and second 1 and a success at second 0, read at
\* second 300: the failure exactly at now - 300 s is not returned, the one
\* a second later is, the success is not
C26_Witness ==
    /\ pc[Caller] = "done"
    /\ unit[Caller] = "request"
    /\ now = WindowSeconds
    /\ {e.sk : e \in failureLog} = {0, 1}
    /\ {e.sk : e \in successLog} = {0}
    /\ response[Caller].statusCode = 200
    /\ response[Caller].recentFailures = 1
    /\ response[Caller].recentSuccesses = 0

\* the step in which logFailure / logSuccess of worker p puts its event
LogsEvent(p) == pc[p] = "log" /\ pc'[p] = "get"

\* C27: every recordFailure or recordSuccess call adds exactly one new
\* event to its stream and never replaces an existing one, also when two
\* calls obtain the same occurredAt timestamp.
C27_EveryCallAddsOneEvent ==
    [][\A p \in Procs :
          LogsEvent(p) =>
              /\ failureLog \subseteq failureLog'
              /\ successLog \subseteq successLog'
              /\ IF call[p].op = "failure"
                 THEN /\ Cardinality(failureLog') = Cardinality(failureLog) + 1
                      /\ successLog' = successLog
                 ELSE /\ Cardinality(successLog') = Cardinality(successLog) + 1
                      /\ failureLog' = failureLog]_vars

\* what lambda.send can answer when the invocation of the level handler
\* has failed
FailedInvocations == {"FunctionError", "throws", "noPayload", "badPayload"}

\* C28: every kind of failed invocation of the level handler (a
\* FunctionError reported by the platform, an exception of the invocation
\* call, a missing or unparseable payload) has the same effect: one
\* recordFailure call, and a 503 response that carries the level read at
\* dispatch.
C28_FailedInvocationsAlike ==
    \A p \in Procs :
        (PostDone(p) /\ request[p].outcome.kind \in FailedInvocations) =>
            /\ Len(calls[p]) = 1
            /\ calls[p][1].op = "failure"
            /\ response[p].statusCode = 503
            /\ response[p].level = systemState[p].currentLevel

\* the thresholds a status request answered now would publish
Published == StatusResponse(DefaultState, 0, 0).thresholds

\* the status request of worker p has been answered
StatusDone(p) ==
    /\ pc[p] = "done"
    /\ unit[p] = "request"
    /\ request[p].httpMethod = "GET"
    /\ response[p].statusCode = 200

WithLevel(p, lvl) ==
    [call[p] EXCEPT !.serviceLevel = lvl, !.serviceType = ServiceTypeMap(lvl)]

\* C30: the level argument of recordFailure / recordSuccess has no
\* influence on the state update: whatever the stored state, the written
\* level, failureCount, successCount and the transitioned flag are the same
\* for every value of the argument; the argument only labels the event.
C30_LevelArgumentIgnored ==
    \A p \in Procs :
        /\ (unit[p] = "record" /\ pc[p] \in {"put", "done"}) =>
              \A lvl \in Levels :
                  LET w == Update(WithLevel(p, lvl), currentState[p])
                  IN  /\ w.transitioned = WrittenState(p).transitioned
                      /\ w.state.currentLevel =
                            WrittenState(p).state.currentLevel
                      /\ w.state.failureCount =
                            WrittenState(p).state.failureCount
                      /\ w.state.successCount =
                            WrittenState(p).state.successCount
                      /\ pc[p] = "done" =>
                            /\ result[p].transitioned = w.transitioned
                            /\ item = Stamped(w.state)
        /\ (unit[p] = "record" /\ pc[p] \in {"get", "create", "put", "done"}) =>
              \E e \in failureLog \cup successLog :
                  e.serviceLevel = call[p].serviceLevel

\* a failure reported for level 3 while the record is at level 1 with four
\* failures: it is the fifth failure of level 1 and moves the level to 2
C30_Witness ==
    /\ pc[Caller] = "done"
    /\ unit[Caller] = "record"
    /\ StartsAt(1, FailuresTo2 - 1, 0)
    /\ hist = Failures(1)
    /\ call[Caller].serviceLevel = 3
    /\ result[Caller].transitioned
    /\ item.currentLevel = 2
    /\ item.failureCount = FailuresTo2
    /\ \E e \in failureLog : e.serviceLevel = 3

----------------------------------------------------------------------------
(* Properties of the fields a call rewrites (TimedSpec) *)

\* the record call of worker p has returned
RecordDone(p) == unit[p] = "record" /\ pc[p] = "done"

\* C31: the transitioned flag a record call returns is true exactly when
\* the level it wrote differs from the level it read; lastTransition and
\* transitionReason are rewritten only then, and a call that keeps the
\* level writes both back as read.
C31_TransitionFieldsOnlyOnTransition ==
    \A p \in Procs :
        RecordDone(p) =>
            LET cur == currentState[p]
                r == result[p]
            IN  /\ r.transitioned <=> r.state.currentLevel # cur.currentLevel
                /\ item.currentLevel = r.state.currentLevel
                /\ item.lastTransition = r.state.lastTransition
                /\ item.transitionReason = r.state.transitionReason
                /\ ~r.transitioned =>
                      /\ item.lastTransition = cur.lastTransition
                      /\ item.transitionReason = cur.transitionReason
                /\ r.transitioned =>
                      /\ item.transitionReason # cur.transitionReason
                      /\ item.transitionReason.count =
                            IF call[p].op = "failure"
                            THEN cur.failureCount + 1
                            ELSE cur.successCount + 1

\* a failure recorded one second after the record was last written, below
\* the threshold: the write is stamped with second 1, the transition
\* fields stay as read
C31_Witness ==
    /\ RecordDone(Caller)
    /\ call[Caller].op = "failure"
    /\ StartsAt(2, FailuresTo2, 0)
    /\ hist = Failures(1)
    /\ ~result[Caller].transitioned
    /\ now = 1
    /\ item.lastUpdated = 1
    /\ item.lastTransition = 0
    /\ item.transitionReason = start.transitionReason
    /\ item.failureCount = FailuresTo2 + 1

\* C32: a recordSuccess call that makes no recovery changes successCount
\* only, by one: the level, failureCount and every other field but the
\* write stamp are written as read. failureCount and successCount are set
\* to 0 by recordSuccess exactly on the calls that make the 3->2 or 2->1
\* transition.
C32_SuccessFrame ==
    \A p \in Procs :
        (RecordDone(p) /\ call[p].op = "success") =>
            LET cur == currentState[p]
                r == result[p]
                recovers ==
                    \/ cur.currentLevel = 3 /\ cur.successCount + 1 >= SuccessesTo2
                    \/ cur.currentLevel = 2 /\ cur.successCount + 1 >= SuccessesTo1
            IN  /\ r.transitioned <=> recovers
                /\ item = Stamped(r.state)
                /\ ~recovers =>
                      r.state = [cur EXCEPT !.successCount = cur.successCount + 1]
                /\ recovers =>
                      /\ r.state.currentLevel = cur.currentLevel - 1
                      /\ r.state.failureCount = 0
                      /\ r.state.successCount = 0

\* a success at level 2 with seven failures counted and one success in the
\* streak: the record keeps level 2 and failureCount 7, successCount is 2
C32_Witness ==
    /\ RecordDone(Caller)
    /\ call[Caller].op = "success"
    /\ hist = Successes(1)
    /\ StartsAt(2, 7, 1)
    /\ ~result[Caller].transitioned
    /\ item.currentLevel = 2
    /\ item.failureCount = 7
    /\ item.successCount = 2

\* no counter of record rec is at or past a threshold of its level
WithinThresholds(rec) ==
    /\ rec.currentLevel \in Levels
    /\ rec.failureCount >= 0
    /\ rec.successCount >= 0
    /\ rec.currentLevel = 1 => rec.failureCount <= FailuresTo2 - 1
    /\ rec.currentLevel = 2 =>
          /\ rec.failureCount <= FailuresTo3 - 1
          /\ rec.successCount <= SuccessesTo1 - 1
    /\ rec.currentLevel = 3 =>
          /\ rec.failureCount >= FailuresTo3
          /\ rec.successCount <= SuccessesTo2 - 1

CreatesDefault(p) ==
    /\ pc[p] \in {"create", "ctlCreate"}
    /\ pc'[p] # pc[p]

\* C34: lazy creation never overwrites an existing record: once a state
\* record that differs from the default in level or counters is persisted,
\* no getSystemState call of any interleaving replaces it with the default.
C34_CreationNeverOverwrites ==
    [][\A p \in Procs :
          (CreatesDefault(p) /\ item # NoItem /\ ~IsDefault(item)) =>
              item' = item]_vars

\* the step in which increment*Count of worker p puts the record it computed
WritesState(p) == pc[p] = "put" /\ pc'[p] # "put"

\* C35 as stated: in every interleaving, the write of a recordFailure call
\* never leaves the persisted level lower than it was immediately before
\* the write, and the write of a recordSuccess call never leaves it higher.
C35_WritesKeepDirection ==
    [][\A p \in Procs :
          (WritesState(p) /\ item # NoItem) =>
              /\ call[p].op = "failure" =>
                    item'.currentLevel >= item.currentLevel
              /\ call[p].op = "success" =>
                    item'.currentLevel <= item.currentLevel]_vars

\* C35 amended: the level a recordFailure call writes is never lower than
\* the level that call read, and higher exactly when the call returns
\* transitioned; the level a recordSuccess call writes is never higher than
\* the level it read, and lower exactly when it returns transitioned. The
\* persisted level keeps that direction across the write whenever it is
\* still the level the call read.
C35_WritesKeepDirectionFromRead ==
    [][\A p \in Procs :
          WritesState(p) =>
              LET read == currentState[p].currentLevel
                  written == item'.currentLevel
              IN  /\ call[p].op = "failure" =>
                        /\ written >= read
                        /\ written > read <=> result'[p].transitioned
                  /\ call[p].op = "success" =>
                        /\ written <= read
                        /\ written < read <=> result'[p].transitioned
                  /\ (item # NoItem /\ item.currentLevel = read) =>
                        /\ call[p].op = "failure" =>
                              written >= item.currentLevel
                        /\ call[p].op = "success" =>
                              written <= item.currentLevel]_vars

\* the suspended caller had read level 1 with four failures; its failure
\* writes level 2 over the level 3 the other worker's last call had written
C35_Witness ==
    /\ \A p \in Procs : quota[p] = 0 /\ pc[p] = "done"
    /\ call[Caller].op = "failure"
    /\ currentState[Caller].currentLevel = 1
    /\ result[Caller].transitioned
    /\ \E p \in Procs \ {Caller} :
          /\ call[p].op = "failure"
          /\ result[p].state.currentLevel = 3
    /\ item = Stamped(result[Caller].state)
    /\ item.currentLevel = 2

----------------------------------------------------------------------------
(* Properties of runs of one kind of call (EscalationSpec, RecoverySpec) *)

StartLevel == IF start = NoItem THEN 1 ELSE start.currentLevel
StartSuccessCount == IF start = NoItem THEN 0 ELSE start.successCount

\* the number of failures in a row after which the start record is at level 3
FailuresToLevel3 ==
    IF StartLevel = 3 THEN 0 ELSE FailuresTo3 - StartFailureCount

\* C36: bounded escalation. From every start record, recordFailure calls
\* one after another with no recordSuccess between them reach level 3
\* after at most 10 calls (exactly when failureCount reaches 10), and once
\* the level is 3 further recordFailure calls keep it at 3.
C36_BoundedEscalation ==
    (AtRest /\ hist = Failures(Len(hist))) =>
        /\ FailuresToLevel3 <= FailuresTo3
        /\ Len(hist) >= FailuresTo3 => item.currentLevel = 3
        /\ hist # <<>> =>
              /\ item.currentLevel = 3 <=> Len(hist) >= FailuresToLevel3
              /\ item.failureCount = StartFailureCount + Len(hist)

\* ten failures from the initial record: level 2 is left with the tenth,
\* and the eleventh keeps level 3
C36_Witness ==
    /\ AtRest
    /\ StartsAt(1, 0, 0)
    /\ hist = Failures(FailuresTo3 + 1)
    /\ item.currentLevel = 3
    /\ item.failureCount = FailuresTo3 + 1
    /\ item.transitionReason.count = FailuresTo3
    /\ ~result[Caller].transitioned

\* the longest run of successes a recovery to level 1 takes: 3 and then 5
SuccessesToRecover == SuccessesTo2 + SuccessesTo1

\* the number of successes in a row after which the start record is at level 1
SuccessesToLevel1 ==
    CASE StartLevel = 3 -> SuccessesTo2 - StartSuccessCount + SuccessesTo1
      [] StartLevel = 2 -> SuccessesTo1 - StartSuccessCount
      [] OTHER -> 0

\* C37 as stated: bounded recovery. From every start record, recordSuccess
\* calls one after another with no recordFailure between them reach level 1
\* with failureCount 0 after at most 8 calls, and then keep level 1.
C37_BoundedRecovery ==
    (AtRest /\ hist = Successes(Len(hist)) /\ Len(hist) >= SuccessesToRecover) =>
        /\ item.currentLevel = 1
        /\ item.failureCount = 0

\* C37 amended: from every start record, recordSuccess calls one after
\* another with no recordFailure between them reach level 1 after at most
\* 8 calls and then keep level 1. failureCount is 0 once the run has made
\* a recovery transition; a run that starts at level 1 makes none and
\* leaves failureCount as it found it.
C37_BoundedRecoveryOfLevel ==
    (AtRest /\ hist = Successes(Len(hist))) =>
        /\ SuccessesToLevel1 <= SuccessesToRecover
        /\ Len(hist) >= SuccessesToRecover => item.currentLevel = 1
        /\ hist # <<>> =>
              /\ item.currentLevel = 1 <=> Len(hist) >= SuccessesToLevel1
              /\ item.currentLevel <= StartLevel
              /\ item.failureCount =
                    IF item.currentLevel < StartLevel THEN 0
                    ELSE StartFailureCount

\* eight successes from level 3 with ten failures: the third moves to level
\* 2, the eighth to level 1 with failureCount 0
C37_Witness ==
    /\ AtRest
    /\ StartsAt(3, FailuresTo3, 0)
    /\ hist = Successes(SuccessesToRecover)
    /\ result[Caller].transitioned
    /\ item.currentLevel = 1
    /\ item.failureCount = 0
    /\ item.successCount = 0

----------------------------------------------------------------------------
(* Properties of a record call whose table calls may reject (CallFaultSpec) *)

\* the call of worker p has ended with an error
Threw(p) == RecordDone(p) /\ "error" \in DOMAIN result[p]

\* the event of the call of worker p is in its stream, the other stream
\* has none
EventAppended(p) ==
    IF call[p].op = "failure"
    THEN /\ failureLog = {FailureEvent(call[p])}
         /\ successLog = {}
    ELSE /\ successLog = {SuccessEvent(call[p])}
         /\ failureLog = {}

\* C38: in a record call the event is appended before the state record is
\* read and written, and the steps are not atomic. If the append fails,
\* the state record is neither read nor written and the error reaches the
\* caller; if the read or the write of the state record fails after the
\* append, the error reaches the caller, the counters are unchanged and
\* the appended event stays in its stream.
C38_AppendThenUpdateNotAtomic ==
    \A p \in Procs :
        /\ (unit[p] = "record" /\ pc[p] = "log") =>
              /\ failureLog = {} /\ successLog = {}
              /\ currentState[p] = NoItem
              /\ item = start
        /\ (unit[p] = "record" /\ pc[p] \in {"get", "create", "put"}) =>
              EventAppended(p)
        /\ Threw(p) =>
              /\ hist = <<>>
              /\ result[p].error = "TableError"
              /\ result[p].at = "log" =>
                    /\ failureLog = {} /\ successLog = {}
                    /\ currentState[p] = NoItem
                    /\ item = start
              /\ result[p].at # "log" =>
                    /\ EventAppended(p)
                    /\ \/ item = start
                       \/ /\ start = NoItem
                          /\ result[p].at = "put"
                          /\ IsDefault(item)
        /\ (RecordDone(p) /\ ~Threw(p)) =>
              /\ EventAppended(p)
              /\ item = Stamped(result[p].state)

\* the put of the state record rejects at level 1 with four failures: the
\* failure event is in its stream, the record still counts four failures
C38_Witness ==
    /\ Threw(Caller)
    /\ result[Caller].at = "put"
    /\ call[Caller].op = "failure"
    /\ StartsAt(1, FailuresTo2 - 1, 0)
    /\ item = start
    /\ Cardinality(failureLog) = 1
    /\ currentState[Caller] = start

----------------------------------------------------------------------------
(* Order of the records of one event (AlarmSpec) *)

\* the records among the first k of the event of worker p that are applied
AppliedUpTo(p, k) ==
    {j \in 1..k : Actionable(batch[p].Records[j])}

\* the records of the event of worker p that ask for recordFailure
FailureAlarms(p) ==
    {j \in 1..Len(batch[p].Records) :
        /\ Actionable(batch[p].Records[j])
        /\ AlarmCall(ParseRecord(batch[p].Records[j])).op = "failure"}

\* C39: the records of one event are applied one at a time in the order of
\* the event: the state write of a record is complete before the state
\* read of the next one, so with no other writer no increment is lost (n
\* failure alarms and no recovery alarm raise failureCount by exactly n),
\* and the result entries are in the order of the event.
C39_RecordsAppliedInOrder ==
    \A p \in Procs :
        (unit[p] = "batch" /\ batch[p].shape = "array") =>
            LET res == batch[p].results
                k == batch[p].index
            IN  /\ pc[p] \in {"log", "get", "create", "put"} =>
                      LET before == Cardinality(AppliedUpTo(p, k - 1))
                      IN  /\ Len(hist) = before
                          /\ Len(res) = before
                /\ pc[p] = "put" => Stamped(currentState[p]) = item
                /\ pc[p] \in {"nextRecord", "done"} =>
                      LET applied == AppliedUpTo(p, k)
                      IN  /\ Len(hist) = Cardinality(applied)
                          /\ {res[i].messageId : i \in 1..Len(res)} = applied
                /\ \A i \in 1..(Len(res) - 1) :
                      res[i].messageId < res[i + 1].messageId
                /\ (pc[p] = "done" /\ hist # <<>>
                      /\ Cardinality(FailureAlarms(p)) = Len(hist)) =>
                      item.failureCount =
                          StartFailureCount + Cardinality(FailureAlarms(p))

\* three failure alarms from level 1 with three failures: failureCount 6,
\* level 2 since the second one, the results in the order of the event
C39_Witness ==
    /\ BatchDone(Caller)
    /\ StartsAt(1, 3, 0)
    /\ Len(batch[Caller].Records) = 3
    /\ Cardinality(FailureAlarms(Caller)) = 3
    /\ hist = Failures(3)
    /\ item.failureCount = 6
    /\ item.currentLevel = 2
    /\ [i \in 1..3 |-> response[Caller].results[i].messageId] = <<1, 2, 3>>

\* C23: when the alarm processor cannot read the records of its event, it
\* still returns a well-formed summary that counts every item as errored
\* and none as processed, and no exception escapes the handler.
C23_UnreadableBatchSummarised ==
    \A p \in Procs :
        (BatchDone(p) /\ batch[p].shape # "array") =>
            /\ DOMAIN response[p] = {"statusCode", "processed", "errors"}
            /\ response[p].statusCode = 500
            /\ response[p].processed = 0

====
